---- MODULE Spec2Model ----
(***************************************************************************)
(* Model of the FriendlyTicker health-score engine (logic/momentum.py) and *)
(* of the callers that consume its result (services/analysis_service.py).  *)
(*                                                                         *)
(* Numbers.  Python floats are modelled in fixed point:                    *)
(*   - a fraction (subscore, ratio, return) is an integer count of 1e-4,   *)
(*     so 1.0 is ONE = 10000;                                              *)
(*   - a price or a volume is an integer (the feed's unit);                *)
(*   - EMA and RSI averages are kept in 1e-3 of a price unit (MILLI).      *)
(* Divisions round to nearest, as IEEE division does at its own grain.     *)
(* Comparisons between means of integer prices are made exactly, by cross  *)
(* multiplication.                                                         *)
(***************************************************************************)
EXTENDS Integers, Sequences, FiniteSets, TLC

ONE == 100 * 100
HALF == ONE \div 2
MILLI == 10 * 100

Min(a, b) == IF a <= b THEN a ELSE b
Max(a, b) == IF a >= b THEN a ELSE b
Abs(a) == IF a < 0 THEN -a ELSE a

\* a / b for b > 0, rounded to the nearest integer (ties upward)
RDiv(a, b) == (a + b \div 2) \div b

\* Python round() of x / unit to an integer: nearest, ties to even
RoundHalfEven(x, unit) ==
    LET q == x \div unit
        r == x % unit
    IN  IF 2 * r < unit THEN q
        ELSE IF 2 * r > unit THEN q + 1
        ELSE IF q % 2 = 0 THEN q ELSE q + 1

\* values[-k:] and values[:-k] of Python
LastN(s, k) == IF k >= Len(s) THEN s ELSE SubSeq(s, Len(s) - k + 1, Len(s))
DropLast(s, k) == IF k >= Len(s) THEN <<>> ELSE SubSeq(s, 1, Len(s) - k)

(***************************************************************************)
(* Loops over a sequence.  A loop over s[lo..hi] is evaluated as the loop  *)
(* over the first half followed by the loop over the second half, so that  *)
(* the evaluation nests to depth log2(hi - lo) and not hi - lo.  A loop    *)
(* that carries a value from one iteration to the next takes it as its     *)
(* last argument; "left = left" makes the first half be evaluated before   *)
(* the second half starts.                                                 *)
(***************************************************************************)
RECURSIVE SumRange(_, _, _)
SumRange(s, lo, hi) ==
    IF lo > hi THEN 0
    ELSE IF lo = hi THEN s[lo]
    ELSE SumRange(s, lo, (lo + hi) \div 2) + SumRange(s, (lo + hi) \div 2 + 1, hi)
SumSeq(s) == SumRange(s, 1, Len(s))

RECURSIVE MinRange(_, _, _)
MinRange(s, lo, hi) ==
    IF lo = hi THEN s[lo]
    ELSE Min(MinRange(s, lo, (lo + hi) \div 2), MinRange(s, (lo + hi) \div 2 + 1, hi))
RECURSIVE MaxRange(_, _, _)
MaxRange(s, lo, hi) ==
    IF lo = hi THEN s[lo]
    ELSE Max(MaxRange(s, lo, (lo + hi) \div 2), MaxRange(s, (lo + hi) \div 2 + 1, hi))

\* integer square root (floor), by Newton iteration from above
RECURSIVE SqrtIter(_, _)
SqrtIter(n, x) ==
    LET y == (x + n \div x) \div 2
    IN  IF y >= x THEN x ELSE SqrtIter(n, y)
ISqrt(n) == IF n <= 0 THEN 0 ELSE IF n < 4 THEN 1 ELSE SqrtIter(n, n \div 2)

(***************************************************************************)
(* Python values that can appear as an item of price_history or as a field *)
(* of a record.  Missing is an absent dict key.  Huge is a positive int    *)
(* beyond the range of a float (10 ** 400); its v is its sign.             *)
(***************************************************************************)
Num(n) == [t |-> "num", v |-> n]
Huge == [t |-> "huge", v |-> 1]
NoneV == [t |-> "none", v |-> 0]
StrV == [t |-> "str", v |-> 0]
Missing == [t |-> "missing", v |-> 0]
Rec(c, p, vol) == [t |-> "dict", close |-> c, price |-> p, volume |-> vol]

\* isinstance(x, (int, float))
IsNumber(x) == x.t \in {"num", "huge"}
\* float(x) of a number: OverflowError when the int is too large
FloatRaises(x) == x.t = "huge"
\* isinstance(item, dict)
IsDict(x) == x.t = "dict"
\* dict.get(key, default): the default only when the key is absent
Get(field, default) == IF field.t = "missing" THEN default ELSE field

\* x > 0 on a price candidate: c > 0 / item > 0
\* (IsPositive_AllowZero: x >= 0)
IsPositive_AllowZero(x) == x.v >= 0
IsPositive(x) == x.v > 0
\* v >= 0 on a volume candidate
IsNonNegative(x) == x.v >= 0

(***************************************************************************)
(* _extract_series: one pass over the items, keeping prices, vols, has_vol.*)
(* raised records the OverflowError of float() on an int that is too large.*)
(* "and" does not evaluate the comparison when isinstance fails.           *)
(***************************************************************************)
ExtractInit == [prices |-> <<>>, vols |-> <<>>, has_vol |-> TRUE, raised |-> FALSE]

\* lines 113-120: a record whose close c is a positive number
RecordStep(acc, c, v) ==
    IF FloatRaises(c) THEN [acc EXCEPT !.raised = TRUE]
    ELSE IF IsNumber(v) /\ IsNonNegative(v)
         THEN IF FloatRaises(v) THEN [acc EXCEPT !.raised = TRUE]
              ELSE [acc EXCEPT !.prices = Append(@, c.v), !.vols = Append(@, v.v)]
    ELSE [acc EXCEPT !.prices = Append(@, c.v), !.has_vol = FALSE]

\* one iteration of the loop of lines 108-124 (ExtractStep_KeepVolFlag: a
\* record without a valid close leaves has_vol as it is)
ExtractStep_KeepVolFlag(acc, item) ==
    IF acc.raised THEN acc
    ELSE IF IsNumber(item) /\ IsPositive(item)
         THEN IF FloatRaises(item) THEN [acc EXCEPT !.raised = TRUE]
              ELSE [acc EXCEPT !.prices = Append(@, item.v), !.has_vol = FALSE]
    ELSE IF IsDict(item)
         THEN IF IsNumber(Get(item.close, Get(item.price, NoneV)))
                 /\ IsPositive(Get(item.close, Get(item.price, NoneV)))
              THEN RecordStep(acc, Get(item.close, Get(item.price, NoneV)),
                              Get(item.volume, NoneV))
              ELSE acc
    ELSE [acc EXCEPT !.has_vol = FALSE]
ExtractStep(acc, item) ==
    IF acc.raised THEN acc
    ELSE IF IsNumber(item) /\ IsPositive(item)
         THEN IF FloatRaises(item) THEN [acc EXCEPT !.raised = TRUE]
              ELSE [acc EXCEPT !.prices = Append(@, item.v), !.has_vol = FALSE]
    ELSE IF IsDict(item)
         THEN IF IsNumber(Get(item.close, Get(item.price, NoneV)))
                 /\ IsPositive(Get(item.close, Get(item.price, NoneV)))
              THEN RecordStep(acc, Get(item.close, Get(item.price, NoneV)),
                              Get(item.volume, NoneV))
              ELSE [acc EXCEPT !.has_vol = FALSE]
    ELSE [acc EXCEPT !.has_vol = FALSE]

RECURSIVE ExtractLoop(_, _, _, _)
ExtractLoop(items, lo, hi, acc) ==
    IF lo > hi THEN acc
    ELSE IF lo = hi THEN ExtractStep(acc, items[lo])
    ELSE LET left == ExtractLoop(items, lo, (lo + hi) \div 2, acc)
         IN  IF left = left THEN ExtractLoop(items, (lo + hi) \div 2 + 1, hi, left)
             ELSE left

MIN_PRICES == 10

\* volumes = <<>> stands for None: a returned volume list is never empty,
\* it has the length of prices, which is at least MIN_PRICES.
\* the returns of lines 126-130, acc being the state the loop ended in
\* (ExtractReturn_NoMinimum: without the minimum of 10 prices)
ExtractReturn_NoMinimum(acc) ==
    IF acc.raised THEN [raised |-> TRUE, prices |-> <<>>, volumes |-> <<>>]
    ELSE IF ~acc.has_vol \/ Len(acc.vols) # Len(acc.prices)
         THEN [raised |-> FALSE, prices |-> acc.prices, volumes |-> <<>>]
    ELSE [raised |-> FALSE, prices |-> acc.prices, volumes |-> acc.vols]
ExtractReturn(acc) ==
    IF acc.raised THEN [raised |-> TRUE, prices |-> <<>>, volumes |-> <<>>]
    ELSE IF Len(acc.prices) < MIN_PRICES
         THEN [raised |-> FALSE, prices |-> <<>>, volumes |-> <<>>]
    ELSE IF ~acc.has_vol \/ Len(acc.vols) # Len(acc.prices)
         THEN [raised |-> FALSE, prices |-> acc.prices, volumes |-> <<>>]
    ELSE [raised |-> FALSE, prices |-> acc.prices, volumes |-> acc.vols]

ExtractSeries(price_history) ==
    ExtractReturn(ExtractLoop(price_history, 1, Len(price_history), ExtractInit))

(***************************************************************************)
(* Helpers (momentum.py lines 20-100).                                     *)
(***************************************************************************)
\* _clamp(x) with lo = 0.0, hi = 1.0
\* (Clamp_Identity: the value passed through unbounded)
Clamp_Identity(x) == x
Clamp(x) == Max(0, Min(ONE, x))

\* _normalize_linear(x, x0, x1), all three in the same unit; a fraction
NormalizeLinear(x, x0, x1) ==
    IF x0 = x1 THEN HALF ELSE Clamp(RDiv((x - x0) * ONE, x1 - x0))

\* _pct_change(a, b) for prices (or averages in one unit); a fraction
PctChange(a, b) == IF a = 0 THEN 0 ELSE RDiv((b - a) * ONE, a)

\* _stdev(xs): sample standard deviation, in the unit of xs
RECURSIVE SumSqDev(_, _, _, _)
SumSqDev(xs, m, lo, hi) ==
    IF lo = hi THEN (xs[lo] - m) * (xs[lo] - m)
    ELSE SumSqDev(xs, m, lo, (lo + hi) \div 2) + SumSqDev(xs, m, (lo + hi) \div 2 + 1, hi)
Stdev(xs) ==
    IF Len(xs) < 2 THEN 0
    ELSE LET m == RDiv(SumSeq(xs), Len(xs))
         IN  ISqrt(RDiv(SumSqDev(xs, m, 1, Len(xs)), Len(xs) - 1))

\* _ema(values, period) in MILLI of a price unit; k = 2 / (period + 1)
RECURSIVE EmaLoop(_, _, _, _, _)
EmaLoop(values, period, lo, hi, e) ==
    IF lo > hi THEN e
    ELSE IF lo = hi THEN RDiv(2 * values[lo] * MILLI + (period - 1) * e, period + 1)
    ELSE LET left == EmaLoop(values, period, lo, (lo + hi) \div 2, e)
         IN  IF left = left THEN EmaLoop(values, period, (lo + hi) \div 2 + 1, hi, left)
             ELSE left
Ema(values, period) ==
    IF values = <<>> THEN 0
    ELSE IF period <= 1 THEN values[Len(values)] * MILLI
    ELSE EmaLoop(values, period, 2, Len(values), values[1] * MILLI)

\* the result of comparing the last price with _sma(values, period):
\* p >= mean(window), decided exactly as p * len(window) >= sum(window)
\* (SmaWindow_Head: the first period values, not the last;
\*  AtOrAboveSma_Below: p <= mean(window))
SmaWindow_Head(values, period) ==
    IF Len(values) < period THEN values ELSE SubSeq(values, 1, period)
SmaWindow(values, period) == IF Len(values) < period THEN values ELSE LastN(values, period)
AtOrAboveSma_Below(p, values, period) ==
    LET w == SmaWindow(values, period) IN p * Len(w) <= SumSeq(w)
AtOrAboveSma(p, values, period) ==
    LET w == SmaWindow(values, period) IN p * Len(w) >= SumSeq(w)
\* _sma(values, a) >= _sma(values, b), decided exactly
SmaAtOrAbove(values, a, b) ==
    LET wa == SmaWindow(values, a)
        wb == SmaWindow(values, b)
    IN  SumSeq(wa) * Len(wb) >= SumSeq(wb) * Len(wa)

\* _max_drawdown(prices); a fraction
DrawdownStep(acc, p) ==
    LET peak == Max(acc.peak, p)
        dd == IF peak > 0 THEN RDiv((peak - p) * ONE, peak) ELSE 0
    IN  [peak |-> peak, mdd |-> Max(acc.mdd, dd)]
RECURSIVE DrawdownLoop(_, _, _, _)
DrawdownLoop(prices, lo, hi, acc) ==
    IF lo = hi THEN DrawdownStep(acc, prices[lo])
    ELSE LET left == DrawdownLoop(prices, lo, (lo + hi) \div 2, acc)
         IN  IF left = left THEN DrawdownLoop(prices, (lo + hi) \div 2 + 1, hi, left)
             ELSE left
MaxDrawdown(prices) ==
    IF prices = <<>> THEN 0
    ELSE DrawdownLoop(prices, 1, Len(prices), [peak |-> prices[1], mdd |-> 0]).mdd

\* _rsi(prices, period): RSI / 100 as a fraction.  avg_gain and avg_loss are
\* in MILLI; 100 - 100 / (1 + rs) with rs = avg_gain / avg_loss is
\* 100 * avg_gain / (avg_gain + avg_loss).
\* gains[i] and losses[i] (0-based i in the code) are Gain(prices, i + 1)
\* and Loss(prices, i + 1)
Gain(prices, i) == Max(0, prices[i + 1] - prices[i])
Loss(prices, i) == Max(0, prices[i] - prices[i + 1])
Gains(prices) == [i \in 1..(Len(prices) - 1) |-> Gain(prices, i)]
Losses(prices) == [i \in 1..(Len(prices) - 1) |-> Loss(prices, i)]
\* the smoothing loop of lines 87-89 on one of the two averages
RECURSIVE WilderLoop(_, _, _, _, _)
WilderLoop(xs, period, lo, hi, avg) ==
    IF lo > hi THEN avg
    ELSE IF lo = hi THEN RDiv(avg * (period - 1) + xs[lo] * MILLI, period)
    ELSE LET left == WilderLoop(xs, period, lo, (lo + hi) \div 2, avg)
         IN  IF left = left THEN WilderLoop(xs, period, (lo + hi) \div 2 + 1, hi, left)
             ELSE left
WilderAverage(xs, period) ==
    WilderLoop(xs, period, period + 1, Len(xs),
               RDiv(SumRange(xs, 1, period) * MILLI, period))
Rsi(prices, period) ==
    IF Len(prices) < period + 1 THEN HALF
    ELSE LET avg_gain == WilderAverage(Gains(prices), period)
             avg_loss == WilderAverage(Losses(prices), period)
         IN  IF avg_loss = 0 THEN ONE
             ELSE RDiv(avg_gain * ONE, avg_gain + avg_loss)

\* math.log(a / b) for prices a, b > 0, a fraction: 2 * atanh((a-b)/(a+b)),
\* summed in units of 1e-6 until the terms vanish or stop shrinking
RECURSIVE AtanhTerms(_, _, _, _)
AtanhTerms(pw, d, s, k) ==
    IF pw = 0 THEN 0
    ELSE LET nxt == RDiv(RDiv(pw * d, s) * d, s)
         IN  RDiv(pw, 2 * k - 1)
               + (IF Abs(nxt) >= Abs(pw) THEN 0 ELSE AtanhTerms(nxt, d, s, k + 1))
LogRatio(a, b) ==
    RDiv(2 * AtanhTerms(RDiv((a - b) * 100 * ONE, a + b), a - b, a + b, 1), 100)

(***************************************************************************)
(* Subscores (momentum.py lines 136-224), each a fraction in 0..ONE.       *)
(***************************************************************************)
\* 1.0 if b else 0.0 (Bit_Inverted: the other way round)
Bit_Inverted(b) == IF b THEN 0 ELSE ONE
Bit(b) == IF b THEN ONE ELSE 0

\* range_pos of lines 145-150
RangePos(prices) ==
    LET p == prices[Len(prices)]
        window == LastN(prices, Min(60, Len(prices)))
        lo == MinRange(window, 1, Len(window))
        hi == MaxRange(window, 1, Len(window))
    IN  Clamp(IF hi = lo THEN HALF ELSE RDiv((p - lo) * ONE, hi - lo))

StructureSubscore(prices) ==
    LET p == prices[Len(prices)]
        above50 == Bit(AtOrAboveSma(p, prices, 50))
        above200 == Bit(AtOrAboveSma(p, prices, 200))
        ma_stack == Bit(SmaAtOrAbove(prices, 50, 200))
        range_pos == RangePos(prices)
    IN  Clamp(RDiv(30 * above50 + 35 * above200 + 20 * ma_stack + 15 * range_pos, 100))

MomentumSubscore(prices) ==
    LET rsi == Rsi(prices, 14)
        rsi_score == ONE - NormalizeLinear(Abs(rsi - 6000), 0, 3000)
        roc20 == IF Len(prices) >= 21
                 THEN PctChange(prices[Len(prices) - 20], prices[Len(prices)])
                 ELSE PctChange(prices[1], prices[Len(prices)])
        roc_score == NormalizeLinear(roc20, -1000, 1000)
        ema12 == Ema(LastN(prices, 60), 12)
        ema26 == Ema(LastN(prices, 60), 26)
        macd_like == PctChange(ema26, ema12)
        macd_score == NormalizeLinear(macd_like, -300, 300)
    IN  Clamp(RDiv(40 * rsi_score + 40 * roc_score + 20 * macd_score, 100))

\* math.log(prices[i] / prices[i-1]) raises ZeroDivisionError on a zero
\* divisor and ValueError on a ratio that is not positive.  The quotient of
\* two of the model's prices is never rounded to zero.
LogRaises(prices) ==
    \E i \in 2..Len(prices) : prices[i - 1] = 0 \/ prices[i] <= 0 \/ prices[i - 1] < 0

RiskSubscore(prices) ==
    LET rets == [i \in 1..(Len(prices) - 1) |-> LogRatio(prices[i + 1], prices[i])]
        vol == Stdev(rets)
        mdd == MaxDrawdown(LastN(prices, 120))
        vol_score == ONE - NormalizeLinear(vol, 80, 300)
        dd_score == ONE - NormalizeLinear(mdd, 500, 3500)
    IN  [score |-> Clamp(RDiv(55 * vol_score + 45 * dd_score, 100)),
         vol |-> vol, mdd |-> mdd]

\* up_vol and down_vol of lines 207-213 over the last n points
UpVolume(prices, volumes, n) ==
    LET L == Len(prices)
    IN  SumSeq([k \in 1..n |-> IF prices[L - n + k] >= prices[L - n + k - 1]
                               THEN volumes[L - n + k] ELSE 0])
DownVolume(prices, volumes, n) ==
    LET L == Len(prices)
    IN  SumSeq([k \in 1..n |-> IF prices[L - n + k] >= prices[L - n + k - 1]
                               THEN 0 ELSE volumes[L - n + k]])

ParticipationSubscore(prices, volumes) ==
    IF volumes = <<>> THEN HALF
    ELSE LET n == Min(20, Len(prices) - 1) IN
         IF n <= 5 THEN HALF
         ELSE LET up_vol == UpVolume(prices, volumes, n)
                  down_vol == DownVolume(prices, volumes, n)
                  total == up_vol + down_vol
                  up_ratio == IF total > 0 THEN RDiv(up_vol * ONE, total) ELSE HALF
                  v_now == volumes[Len(volumes)]
                  v_sum == SumSeq(LastN(volumes, n + 1))
                  v_rel == IF v_sum > 0 THEN RDiv(v_now * (n + 1) * ONE, v_sum) ELSE ONE
                  v_score == NormalizeLinear(v_rel, 7000, 15000)
              IN  Clamp(RDiv(70 * up_ratio + 30 * v_score, 100))

(***************************************************************************)
(* Blender (momentum.py lines 253-272).                                    *)
(***************************************************************************)
\* CurveSteps[k] is the least blended value (a fraction) at which
\* int(round(100 / (1 + exp(-6 * (blended - 0.5))))) reaches 5 + k
CurveSteps ==
    <<
       261, 557, 813, 1040, 1244, 1429, 1599, 1757, 1905, 2043,
       2174, 2298, 2416, 2529, 2637, 2742, 2842, 2939, 3033, 3125,
       3214, 3300, 3385, 3468, 3548, 3628, 3706, 3782, 3858, 3932,
       4005, 4078, 4149, 4220, 4290, 4359, 4428, 4497, 4565, 4632,
       4700, 4767, 4834, 4900, 4967, 5034, 5101, 5167, 5234, 5301,
       5369, 5436, 5504, 5573, 5642, 5711, 5781, 5852, 5923, 5996,
       6069, 6143, 6219, 6295, 6373, 6453, 6533, 6616, 6701, 6787,
       6876, 6968, 7062, 7159, 7259, 7364, 7472, 7585, 7703, 7827,
       7958, 8096, 8244, 8402, 8572, 8757, 8961, 9188, 9444, 9740 >>

\* score = int(round(100 * curved))
Curve(blended) == 5 + Cardinality({k \in 1..Len(CurveSteps) : CurveSteps[k] <= blended})

\* max_score = int(round(30 + 70 * s_risk)); score = min(score, max_score)
\* (RiskCap_NoCap: the curved score left as it is; RiskCap_Riskiness: the
\* cap falls as the risk subscore rises)
RiskCap_NoCap(score, s_risk) == score
RiskCap_Riskiness(score, s_risk) ==
    Min(score, RoundHalfEven(30 * ONE + 70 * (ONE - s_risk), ONE))
RiskCap(score, s_risk) == Min(score, RoundHalfEven(30 * ONE + 70 * s_risk, ONE))

\* the label of lines 267-272 (Label_ScoreOnly: the score alone decides)
Label_ScoreOnly(score, s_structure) ==
    IF score >= 60 THEN "Uptrend"
    ELSE IF score <= 40 THEN "Downtrend"
    ELSE "Sideways"
Label(score, s_structure) ==
    IF score >= 60 /\ s_structure >= 5500 THEN "Uptrend"
    ELSE IF score <= 40 /\ s_structure <= 4500 THEN "Downtrend"
    ELSE "Sideways"

\* round(x, 3) of a fraction, in units of 1e-3
Round3(x) == RoundHalfEven(x, 10)

HEALTH_WINDOW_DAYS == 200

\* the neutral result of _compute_components (lines 233-241)
NeutralComponents ==
    [raised |-> FALSE, label |-> "Sideways", score |-> 50,
     subscores |-> [structure |-> 500, momentum |-> 500, risk |-> 500,
                    participation |-> 500],
     vol |-> 0, max_drawdown |-> 0, has_volume |-> FALSE,
     scored |-> FALSE, s_structure |-> HALF, s_risk |-> HALF, curved |-> 50]

RaisedComponents == [NeutralComponents EXCEPT !.raised = TRUE]

\* The fields scored, s_structure, s_risk and curved are locals of
\* _compute_components (the unrounded subscores and the score before the
\* cap), kept for the properties; the others are the returned dict.
\* lines 267-286: the label and the returned dict
Components(s_structure, s_momentum, risk, s_part, has_volume, curved, score) ==
    [raised |-> FALSE,
     label |-> Label(score, s_structure),
     score |-> score,
     subscores |-> [structure |-> Round3(s_structure),
                    momentum |-> Round3(s_momentum),
                    risk |-> Round3(risk.score),
                    participation |-> Round3(s_part)],
     vol |-> risk.vol, max_drawdown |-> risk.mdd,
     has_volume |-> has_volume,
     scored |-> TRUE, s_structure |-> s_structure,
     s_risk |-> risk.score, curved |-> curved]

\* lines 264-265: the risk cap on the curved score
Capped(s_structure, s_momentum, risk, s_part, has_volume, curved) ==
    Components(s_structure, s_momentum, risk, s_part, has_volume, curved,
               RiskCap(curved, risk.score))

\* lines 253-262: the blend of the four subscores and the curve
Blend(s_structure, s_momentum, risk, s_part, has_volume) ==
    Capped(s_structure, s_momentum, risk, s_part, has_volume,
           Curve(Clamp(RDiv(35 * s_structure + 25 * s_momentum
                            + 20 * risk.score + 20 * s_part, 100))))

\* lines 248-251: the four subscores of the trimmed series
ScoreSeries(prices, volumes) ==
    IF LogRaises(prices) THEN RaisedComponents
    ELSE Blend(StructureSubscore(prices), MomentumSubscore(prices),
               RiskSubscore(prices),
               IF volumes # <<>> THEN ParticipationSubscore(prices, volumes) ELSE HALF,
               volumes # <<>>)

\* lines 243-246: the windows the subscores are computed on
\* (TrimmedVolumes_Untrimmed: the volumes left as extracted)
\* (TrimmedPrices_Head: the oldest points kept instead of the most recent)
TrimmedVolumes_Untrimmed(ex) == ex.volumes
TrimmedPrices_Head(ex) == SubSeq(ex.prices, 1, Min(Len(ex.prices), HEALTH_WINDOW_DAYS))
TrimmedPrices(ex) == LastN(ex.prices, HEALTH_WINDOW_DAYS)
TrimmedVolumes(ex) ==
    IF Len(ex.prices) > HEALTH_WINDOW_DAYS /\ ex.volumes # <<>>
    THEN LastN(ex.volumes, HEALTH_WINDOW_DAYS)
    ELSE ex.volumes

\* lines 232-246 on what _extract_series returned
ScoreExtracted(ex) ==
    IF ex.raised THEN RaisedComponents
    ELSE IF ex.prices = <<>> \/ Len(ex.prices) < MIN_PRICES THEN NeutralComponents
    ELSE ScoreSeries(TrimmedPrices(ex), TrimmedVolumes(ex))

\* _compute_components
ComputeComponents(price_history) == ScoreExtracted(ExtractSeries(price_history))

(***************************************************************************)
(* Public API: calculate_momentum_with_delta (momentum.py lines 292-360).  *)
(* An optional value (None or x) is the sequence <<>> or <<x>>.            *)
(***************************************************************************)
LOOKBACK_DAYS == 7
PRESSURE_VOL_WINDOW == 14

\* len(prices) >= LOOKBACK_DAYS + PRESSURE_VOL_WINDOW + 20
\* (DecayHasData_Short: without the 20 extra points)
DecayHasData_Short(prices) == Len(prices) >= LOOKBACK_DAYS + PRESSURE_VOL_WINDOW
DecayHasData(prices) == Len(prices) >= LOOKBACK_DAYS + PRESSURE_VOL_WINDOW + 20

\* the deltas collected by the loop of lines 320-326: i = 1, 2, ... until
\* the older window has fewer than 30 points
RecentDeltaCount(prices) ==
    Cardinality({i \in 1..PRESSURE_VOL_WINDOW : Len(prices) - (i + LOOKBACK_DAYS) >= 30})
RecentDeltas(prices) ==
    [i \in 1..RecentDeltaCount(prices) |->
        MomentumSubscore(DropLast(prices, i))
        - MomentumSubscore(DropLast(prices, i + LOOKBACK_DAYS))]

\* lines 328-330: mom_vol, in the unit of the deltas
MomVol(recent_deltas) ==
    IF Len(recent_deltas) >= 5 /\ Stdev(recent_deltas) > 0
    THEN Stdev(recent_deltas) ELSE 100

\* lines 335-338: the regime adjustment of z
\* (Adjust_None: z left as it is)
Adjust_None(z, label, score) == z
Adjust(z, label, score) ==
    IF label = "Sideways" THEN RDiv(z * 125, 100)
    ELSE IF label = "Uptrend" /\ score > 70 THEN RDiv(z * 115, 100)
    ELSE z

\* z of lines 315-338, in units of 1e-3
PressureZ(prices, label, score) ==
    Adjust(RDiv((MomentumSubscore(prices)
                 - MomentumSubscore(DropLast(prices, LOOKBACK_DAYS))) * 1000,
                MomVol(RecentDeltas(prices))),
           label, score)

DecayLabel(z) ==
    IF z <= -1250 THEN "Elevated"
    ELSE IF z <= -600 THEN "Easing"
    ELSE "Stable"

\* lines 316-348 on the prices _extract_series returned
DecayOf(prices, comps_now) ==
    IF prices # <<>> /\ DecayHasData(prices)
    THEN DecayLabel(PressureZ(prices, comps_now.label, comps_now.score))
    ELSE "Stable"

MomentumDecay(price_history, comps_now) ==
    DecayOf(ExtractSeries(price_history).prices, comps_now)

\* comps_close of lines 295-297
\* (HasCloseInput_ValidCount: counting the valid prices, not the items)
HasCloseInput_ValidCount(price_history) ==
    price_history # <<>> /\ Len(ExtractSeries(price_history).prices) >= 11
HasCloseInput(price_history) == price_history # <<>> /\ Len(price_history) >= 11

\* "components" of the returned dict
ComponentsKey(comps) ==
    [subscores |-> comps.subscores, vol |-> comps.vol,
     max_drawdown |-> comps.max_drawdown]

\* the call raised: nothing is returned
RaisedResult ==
    [raised |-> TRUE, label |-> "", score |-> 0, delta_since_close |-> <<>>,
     momentum_decay |-> "", components |-> ComponentsKey(RaisedComponents),
     comps_now |-> RaisedComponents]

\* lines 299-360 once comps_now and comps_close are computed.  The field
\* comps_now is the local of that name, kept for the properties; the other
\* fields are the returned dict.
MomentumResult(price_history, comps_now, comps_close) ==
    IF comps_now.raised \/ (comps_close # <<>> /\ comps_close[1].raised)
    THEN RaisedResult
    ELSE [raised |-> FALSE,
          label |-> comps_now.label,
          score |-> comps_now.score,
          delta_since_close |->
              IF comps_close # <<>>
              THEN <<comps_now.score - comps_close[1].score>> ELSE <<>>,
          momentum_decay |-> MomentumDecay(price_history, comps_now),
          components |-> ComponentsKey(comps_now),
          comps_now |-> comps_now]

CalculateMomentumWithDelta(price_history) ==
    MomentumResult(price_history,
                   ComputeComponents(price_history),
                   IF HasCloseInput(price_history)
                   THEN <<ComputeComponents(DropLast(price_history, 1))>>
                   ELSE <<>>)

(***************************************************************************)
(* The divisors the engine evaluates, function by function: each set holds *)
(* the value of every divisor of a / or of a _mean that the call reaches,  *)
(* the guards of the code deciding which ones are reached.  The divisor of *)
(* the curve (line 261) is 1 + exp(..), which is above 1.                   *)
(***************************************************************************)
\* _mean(xs): len(xs)
MeanDivisors(xs) == IF xs = <<>> THEN {} ELSE {Len(xs)}

\* _stdev(xs): len(xs) in _mean and len(xs) - 1
StdevDivisors(xs) == IF Len(xs) < 2 THEN {} ELSE MeanDivisors(xs) \union {Len(xs) - 1}

\* _ema(values, period): period + 1.0
EmaDivisors(values, period) ==
    IF values = <<>> \/ period <= 1 THEN {} ELSE {period + 1}

\* _sma(values, period)
SmaDivisors(values, period) ==
    IF values = <<>> THEN {} ELSE MeanDivisors(SmaWindow(values, period))

\* _pct_change(a, b): a
PctChangeDivisors(a) == IF a = 0 THEN {} ELSE {a}

\* _normalize_linear(x, x0, x1): x1 - x0
NormalizeDivisors(x0, x1) == IF x0 = x1 THEN {} ELSE {x1 - x0}

\* _max_drawdown(prices): every peak the loop passes that is above 0
DrawdownDivisors(prices) ==
    {prices[i] : i \in {j \in 1..Len(prices) :
                            /\ MaxRange(prices, 1, j) > 0
                            /\ prices[j] = MaxRange(prices, 1, j)}}

\* _rsi(prices, period): len(gains[:period]) in _mean, period, avg_loss and
\* 1.0 + rs, which is (avg_gain + avg_loss) / avg_loss
RsiTailDivisors(avg_gain, avg_loss) ==
    IF avg_loss = 0 THEN {} ELSE {avg_loss, avg_gain + avg_loss}
RsiDivisors(prices, period) ==
    IF Len(prices) < period + 1 THEN {}
    ELSE MeanDivisors(SubSeq(Gains(prices), 1, period))
         \union (IF Len(prices) - 1 > period THEN {period} ELSE {})
         \union RsiTailDivisors(WilderAverage(Gains(prices), period),
                                WilderAverage(Losses(prices), period))

\* _structure_subscore(prices)
RangeDivisors(lo, hi) == IF hi = lo THEN {} ELSE {hi - lo}
StructureDivisors(prices) ==
    SmaDivisors(prices, 50) \union SmaDivisors(prices, 200)
    \union RangeDivisors(MinRange(LastN(prices, 60), 1, Min(60, Len(prices))),
                         MaxRange(LastN(prices, 60), 1, Min(60, Len(prices))))

\* _momentum_subscore(prices)
MomentumDivisors(prices) ==
    RsiDivisors(prices, 14)
    \union NormalizeDivisors(0, 3000)
    \union PctChangeDivisors(IF Len(prices) >= 21 THEN prices[Len(prices) - 20]
                             ELSE prices[1])
    \union NormalizeDivisors(-1000, 1000)
    \union EmaDivisors(LastN(prices, 60), 12)
    \union EmaDivisors(LastN(prices, 60), 26)
    \union PctChangeDivisors(Ema(LastN(prices, 60), 26))
    \union NormalizeDivisors(-300, 300)

\* _risk_subscore(prices): prices[i - 1] for every return, then _stdev of
\* the returns and _max_drawdown
RiskDivisors(prices) ==
    {prices[i] : i \in 1..(Len(prices) - 1)}
    \union StdevDivisors([i \in 1..(Len(prices) - 1) |-> 0])
    \union DrawdownDivisors(LastN(prices, 120))
    \union NormalizeDivisors(80, 300)
    \union NormalizeDivisors(500, 3500)

\* _participation_subscore(prices, volumes): total, len in _mean, v_avg
VolumeDivisors(total, window) ==
    (IF total > 0 THEN {total} ELSE {})
    \union MeanDivisors(window)
    \union (IF SumSeq(window) > 0 THEN {SumSeq(window)} ELSE {})
    \union NormalizeDivisors(7000, 15000)
ParticipationDivisors(prices, volumes) ==
    IF volumes = <<>> \/ Min(20, Len(prices) - 1) <= 5 THEN {}
    ELSE VolumeDivisors(UpVolume(prices, volumes, Min(20, Len(prices) - 1))
                        + DownVolume(prices, volumes, Min(20, Len(prices) - 1)),
                        LastN(volumes, Min(20, Len(prices) - 1) + 1))

\* _compute_components on what _extract_series returned
ScoreDivisors(prices, volumes) ==
    StructureDivisors(prices) \union MomentumDivisors(prices)
    \union RiskDivisors(prices)
    \union (IF volumes # <<>> THEN ParticipationDivisors(prices, volumes) ELSE {})
ComponentsDivisors(ex) ==
    IF ex.raised \/ ex.prices = <<>> \/ Len(ex.prices) < MIN_PRICES THEN {}
    ELSE ScoreDivisors(TrimmedPrices(ex), TrimmedVolumes(ex))

\* lines 312-332: the momentum subscores of the pressure, _stdev of the
\* recent deltas and mom_vol
DecayDivisors(prices) ==
    IF prices # <<>> /\ DecayHasData(prices)
    THEN MomentumDivisors(prices)
         \union MomentumDivisors(DropLast(prices, LOOKBACK_DAYS))
         \union UNION {MomentumDivisors(DropLast(prices, i))
                           \union MomentumDivisors(DropLast(prices, i + LOOKBACK_DAYS)) :
                       i \in 1..RecentDeltaCount(prices)}
         \union (IF RecentDeltaCount(prices) >= 5
                 THEN StdevDivisors(RecentDeltas(prices)) ELSE {})
         \union {MomVol(RecentDeltas(prices))}
    ELSE {}

\* calculate_momentum_with_delta(price_history)
CallDivisors(price_history) ==
    ComponentsDivisors(ExtractSeries(price_history))
    \union (IF HasCloseInput(price_history)
            THEN ComponentsDivisors(ExtractSeries(DropLast(price_history, 1)))
            ELSE {})
    \union DecayDivisors(ExtractSeries(price_history).prices)

(***************************************************************************)
(* analyze_ticker (analysis_service.py lines 29-151): the returned dict,   *)
(* its key set included.  dict.get of a key the dict does not have is      *)
(* None.  The values of ticker, as_of, company_name, company_profile and   *)
(* news are not modelled, the keys are.                                    *)
(***************************************************************************)
NoSignals == [regime |-> <<>>, trend_score |-> <<>>, delta_1d |-> <<>>,
              momentum_decay |-> <<>>]

\* the keys of the dict calculate_momentum_with_delta returns (lines 350-360)
MomentumKeys == {"label", "score", "delta_since_close", "momentum_decay", "components"}

\* momentum.get("regime"), line 78
RegimeOf(momentum) ==
    IF "regime" \in MomentumKeys THEN <<momentum.regime>> ELSE <<>>

\* lines 81-93: the decay the service derives from delta_1d
ServiceDecay(delta) ==
    IF delta # <<>>
    THEN IF delta[1] <= -8 THEN <<"Elevated">>
         ELSE IF delta[1] <= -4 THEN <<"Mild">>
         ELSE <<"None">>
    ELSE <<>>

SignalsOf(momentum) ==
    [regime |-> RegimeOf(momentum),
     trend_score |-> <<momentum.score>>,
     delta_1d |-> momentum.delta_since_close,
     momentum_decay |-> ServiceDecay(momentum.delta_since_close)]

\* the keys of the result dict as created, lines 43-57
InitialResultKeys ==
    {"ok", "ticker", "as_of", "company_name", "momentum", "signals", "summary",
     "error"}

\* the keys step 4 adds, whether it succeeds (lines 112-113) or not
\* (lines 119-120)
CompanyKeys == {"company_profile", "news"}

\* the return of lines 64-67: validate_ticker raised ValueError
InvalidTickerResult ==
    [ok |-> FALSE, keys |-> InitialResultKeys, momentum |-> <<>>,
     signals |-> NoSignals, summary |-> "", error |-> <<"validation">>]

\* the return of lines 95-99: fetch_price_history or the engine raised
PriceFailureResult ==
    [ok |-> FALSE, keys |-> InitialResultKeys, momentum |-> <<>>,
     signals |-> NoSignals, summary |-> "", error |-> <<"price">>]

\* lines 100-151 once momentum is set: steps 4 and 5 and the final return
CompletedResult(company_ok, summary_ok, momentum) ==
    [ok |-> TRUE,
     keys |-> InitialResultKeys \union CompanyKeys,
     momentum |-> <<momentum>>,
     signals |-> SignalsOf(momentum),
     summary |-> IF summary_ok THEN "summary" ELSE "",
     error |-> IF ~company_ok THEN <<"company">>
               ELSE IF ~summary_ok THEN <<"summary">>
               ELSE <<>>]

\* the returned dict, momentum being what calculate_momentum_with_delta gave
AnalysisOf(valid, fetch_ok, company_ok, summary_ok, momentum) ==
    IF ~valid THEN InvalidTickerResult
    ELSE IF ~fetch_ok \/ momentum.raised THEN PriceFailureResult
    ELSE CompletedResult(company_ok, summary_ok, momentum)

\* fetched is what fetch_price_history returned; valid, fetch_ok, company_ok
\* and summary_ok tell whether validate_ticker, fetch_price_history, the
\* company and news fetches and generate_ai_summary returned
AnalyzeTicker(valid, fetch_ok, company_ok, summary_ok, fetched) ==
    AnalysisOf(valid, fetch_ok, company_ok, summary_ok,
               CalculateMomentumWithDelta(fetched))

(***************************************************************************)
(* The inputs.  A caller's price_history starts as one of the base series  *)
(* below (or empty) and grows by single items; generated series follow a   *)
(* few price shapes so that every label, the risk cap and every decay      *)
(* class occur.                                                            *)
(***************************************************************************)
Shapes == {"rise", "zigzag", "hump", "wave"}
WaveOffsets == <<3, 5, 3, 0, -3, -5, -3, 0>>
ShapePrice(shape, i) ==
    CASE shape = "rise" -> 100 + 2 * i
      [] shape = "zigzag" -> IF i % 2 = 1 THEN 100 ELSE 60
      [] shape = "hump" -> IF i <= 30 THEN 100 + 3 * i ELSE 190 - 4 * (i - 30)
      [] shape = "wave" -> 100 + WaveOffsets[((i - 1) % 8) + 1]
ShapeVolume(i) == 10 + 5 * (i % 3)

\* the item at a hole: a record without volume, or a None in a bare list
BaseItem(shape, kind, i, hole) ==
    IF kind = "rec"
    THEN Rec(Num(ShapePrice(shape, i)), Missing,
             IF i = hole THEN Missing ELSE Num(ShapeVolume(i)))
    ELSE IF i = hole THEN NoneV ELSE Num(ShapePrice(shape, i))

BaseSeries(shape, kind, n, hole) == [i \in 1..n |-> BaseItem(shape, kind, i, hole)]

ShortLen == 9
LongLen == 40
MaxAppend == 2

\* the items a caller adds: a price, a zero and an int beyond the float
\* range; a record with close and volume, one with the price key and a
\* negative volume, one whose close is a string
BareItems == {Num(95), Num(0), Huge}
RecordItems ==
    {Rec(Num(90), Missing, Num(20)), Rec(Missing, Num(90), Num(-1)),
     Rec(StrV, Num(90), Num(20))}

VARIABLES
    price_history,  \* the list the caller holds
    appended,       \* how many single items were added to it
    result,         \* <<r>>: what calculate_momentum_with_delta(price_history) returned
    analysis,       \* <<a>>: what analyze_ticker returned on fetching price_history
    calls           \* the engine calls running on price_history, one record each

\* the blend of lines 253-265 applied to subscores of any value
VARIABLES
    subs,           \* the four subscores, in units of 1e-4
    final_score,    \* the score the blend gives them
    score_before,   \* the score before one of them was last raised
    raises          \* how many times one of them was raised

\* fetch_price_history and its module-level cache (market_data_source.py)
VARIABLES
    cache,          \* _PRICE_CACHE: per symbol <<>> or <<[ts, prices]>>
    now,            \* time.time()
    ticks,          \* how many times the clock advanced
    fetched         \* <<f>>: how the last call of fetch_price_history ended

\* run_alerts_once and the tables of alert_store.py
VARIABLES
    alert_rules,    \* alert_rules: per pair "none", "on" (enabled) or "off"
    alert_state,    \* alert_state: per pair <<>> or <<row>>
    clock,          \* datetime.utcnow(), in seconds
    alert_ticks,    \* how many times the clock advanced
    runs,           \* how many runs of run_alerts_once started
    last_run,       \* <<r>>: what the last finished run met and returned
    alerted_at,     \* per pair, the run times at which an alert was triggered
    runners         \* the runs in progress, one record per thread

\* the JSON file of watchlist_service.py
VARIABLES
    watchlists,     \* data/watchlists.json: per user the stored list
    watch_call      \* <<c>>: how the last add or remove ended

engine_vars == <<price_history, appended, result, analysis, calls>>
blend_vars == <<subs, final_score, score_before, raises>>
fetch_vars == <<cache, now, ticks, fetched>>
alert_vars == <<alert_rules, alert_state, clock, alert_ticks, runs, last_run,
                alerted_at, runners>>
watch_vars == <<watchlists, watch_call>>
vars == <<engine_vars, blend_vars, fetch_vars, alert_vars, watch_vars>>

\* a call that has not started
IdleCall ==
    [pc |-> "idle", given |-> <<>>, comps_now |-> NeutralComponents,
     comps_close |-> <<>>, ret |-> <<>>]

NumCalls == 2

\* what the engine and its callers leave alone
beyond_engine == <<blend_vars, fetch_vars, alert_vars, watch_vars>>
other_vars == <<calls, beyond_engine>>

\* what the blend alone leaves alone
beyond_blend == <<engine_vars, fetch_vars, alert_vars, watch_vars>>

\* what fetch_price_history leaves alone
beyond_fetch == <<engine_vars, blend_vars, alert_vars, watch_vars>>

\* what run_alerts_once and the alert store leave alone
beyond_alerts == <<engine_vars, blend_vars, fetch_vars, watch_vars>>

\* what the watchlist service leaves alone
beyond_watchlist == <<engine_vars, blend_vars, fetch_vars, alert_vars>>

\* no list is held and no call runs
EngineIdle ==
    /\ price_history = <<>>
    /\ appended = 0
    /\ result = <<>>
    /\ analysis = <<>>
    /\ calls = [c \in 1..NumCalls |-> IdleCall]

\* the final score of four subscores: lines 253-265
FinalScore(s) ==
    Blend(s.structure, s.momentum, [score |-> s.risk, vol |-> 0, mdd |-> 0],
          s.participation, TRUE).score

\* the subscores of the neutral result
BlendIdle ==
    /\ subs = [structure |-> HALF, momentum |-> HALF, risk |-> HALF,
               participation |-> HALF]
    /\ final_score = 50
    /\ score_before = 50
    /\ raises = 0

Symbols == {"AAPL", "MSFT"}

\* nothing was fetched yet: the cache is empty (line 13)
FetchIdle ==
    /\ cache = [t \in Symbols |-> <<>>]
    /\ now = 0
    /\ ticks = 0
    /\ fetched = <<>>

\* the (email, ticker) pairs rules are written for, and the threads that
\* run run_alerts_once: the scheduler (app.py line 137) and a request
Pairs == {<<"ann@x.io", "AAPL">>, <<"bob@x.io", "AAPL">>}
Runners == {"scheduler", "endpoint"}
IdleRunner == [pc |-> "idle", now |-> 0, todo |-> {}, pair |-> <<>>,
               seen |-> <<>>, state |-> <<>>, reasons |-> <<>>,
               met |-> [p \in Pairs |-> <<>>]]

\* init_db on a new file: both tables empty, nothing has run
AlertIdle ==
    /\ alert_rules = [p \in Pairs |-> "none"]
    /\ alert_state = [p \in Pairs |-> <<>>]
    /\ clock = 0
    /\ alert_ticks = 0
    /\ runs = 0
    /\ last_run = <<>>
    /\ alerted_at = [p \in Pairs |-> <<>>]
    /\ runners = [r \in Runners |-> IdleRunner]

Users == {"u1", "u2"}

\* no watchlist file yet (lines 32-33)
WatchIdle ==
    /\ watchlists = [u \in Users |-> <<>>]
    /\ watch_call = <<>>

Init ==
    /\ \/ price_history = <<>>
       \/ \E shape \in Shapes, kind \in {"bare", "rec"}, n \in {ShortLen, LongLen} :
            \E hole \in {0, n \div 2} :
                price_history = BaseSeries(shape, kind, n, hole)
    /\ appended = 0
    /\ result = <<>>
    /\ analysis = <<>>
    /\ calls = [c \in 1..NumCalls |-> IdleCall]
    /\ BlendIdle
    /\ FetchIdle
    /\ AlertIdle
    /\ WatchIdle

\* the caller adds a bare number; what was computed from the old list is dropped
AppendBare ==
    /\ appended < MaxAppend
    /\ \E item \in BareItems : price_history' = Append(price_history, item)
    /\ appended' = appended + 1
    /\ result' = <<>>
    /\ analysis' = <<>>
    /\ UNCHANGED other_vars

\* the caller adds a record
AppendRecord ==
    /\ appended < MaxAppend
    /\ \E item \in RecordItems : price_history' = Append(price_history, item)
    /\ appended' = appended + 1
    /\ result' = <<>>
    /\ analysis' = <<>>
    /\ UNCHANGED other_vars

\* the caller adds a None
AppendNone ==
    /\ appended < MaxAppend
    /\ price_history' = Append(price_history, NoneV)
    /\ appended' = appended + 1
    /\ result' = <<>>
    /\ analysis' = <<>>
    /\ UNCHANGED other_vars

\* calculate_momentum_with_delta(price_history)
Calculate ==
    /\ result = <<>>
    /\ result' = <<CalculateMomentumWithDelta(price_history)>>
    /\ UNCHANGED <<price_history, appended, analysis>>
    /\ UNCHANGED other_vars

\* analyze_ticker(ticker): each of its four collaborators returns or raises,
\* fetch_price_history returning price_history
Analyze ==
    /\ analysis = <<>>
    /\ \E valid, fetch_ok, company_ok, summary_ok \in BOOLEAN :
           analysis' = <<AnalyzeTicker(valid, fetch_ok, company_ok, summary_ok,
                                       price_history)>>
    /\ UNCHANGED <<price_history, appended, result>>
    /\ UNCHANGED other_vars

\* the engine called directly
Next == AppendBare \/ AppendRecord \/ AppendNone \/ Calculate

Spec == Init /\ [][Next]_vars

\* the engine called through the analysis service
ServiceNext == AppendBare \/ AppendRecord \/ AppendNone \/ Analyze

ServiceSpec == Init /\ [][ServiceNext]_vars

(***************************************************************************)
(* Concurrent engine calls on one list.  A call of                          *)
(* calculate_momentum_with_delta reads price_history three times: for       *)
(* comps_now (line 293), for comps_close (lines 295-297) and for the       *)
(* pressure (lines 312-348).  The calls of other threads run between these *)
(* reads.  The engine has no module-level state beyond its functions and   *)
(* the constant HEALTH_WINDOW_DAYS.                                        *)
(***************************************************************************)
\* the list after price_history[:-1] was taken (line 297): a slice is a new
\* list (InputAfterSlice_Pop: the last item is removed in place)
InputAfterSlice_Pop(h) == DropLast(h, 1)
InputAfterSlice(h) == h

\* line 293; an exception ends the call
CallNow(c) ==
    /\ calls[c].pc = "idle"
    /\ calls' = [calls EXCEPT ![c] =
           [@ EXCEPT !.given = price_history,
                     !.comps_now = ComputeComponents(price_history),
                     !.pc = IF ComputeComponents(price_history).raised
                            THEN "done" ELSE "close",
                     !.ret = IF ComputeComponents(price_history).raised
                             THEN <<RaisedResult>> ELSE <<>>]]
    /\ UNCHANGED <<price_history, appended, result, analysis>>
    /\ UNCHANGED beyond_engine

\* lines 295-297
CallClose(c) ==
    /\ calls[c].pc = "close"
    /\ calls' = [calls EXCEPT ![c] =
           [@ EXCEPT !.comps_close =
                         IF HasCloseInput(price_history)
                         THEN <<ComputeComponents(DropLast(price_history, 1))>>
                         ELSE <<>>,
                     !.pc = "decay"]]
    /\ price_history' = IF HasCloseInput(price_history)
                        THEN InputAfterSlice(price_history) ELSE price_history
    /\ UNCHANGED <<appended, result, analysis>>
    /\ UNCHANGED beyond_engine

\* lines 299-360
CallReturn(c) ==
    /\ calls[c].pc = "decay"
    /\ calls' = [calls EXCEPT ![c] =
           [@ EXCEPT !.ret = <<MomentumResult(price_history, calls[c].comps_now,
                                              calls[c].comps_close)>>,
                     !.pc = "done"]]
    /\ UNCHANGED <<price_history, appended, result, analysis>>
    /\ UNCHANGED beyond_engine

ConcNext == \E c \in 1..NumCalls : CallNow(c) \/ CallClose(c) \/ CallReturn(c)

ConcSpec == Init /\ [][ConcNext]_vars

(***************************************************************************)
(* The engine on the numeric edge cases: prices that do not move and       *)
(* volumes that are all zero, beside series that do move.                  *)
(***************************************************************************)
EdgeShapes == {"flat", "rise", "wave"}
EdgeVolumes == {"none", "zero", "some"}
EdgeLens == {10, 15, 42}

EdgePrice(shape, i) == IF shape = "flat" THEN 100 ELSE ShapePrice(shape, i)

EdgeSeries(shape, vol, n) ==
    [i \in 1..n |->
        IF vol = "none" THEN Num(EdgePrice(shape, i))
        ELSE Rec(Num(EdgePrice(shape, i)), Missing,
                 Num(IF vol = "zero" THEN 0 ELSE ShapeVolume(i)))]

EdgeInit ==
    /\ \E shape \in EdgeShapes, vol \in EdgeVolumes, n \in EdgeLens :
           price_history = EdgeSeries(shape, vol, n)
    /\ appended = 0
    /\ result = <<>>
    /\ analysis = <<>>
    /\ calls = [c \in 1..NumCalls |-> IdleCall]
    /\ BlendIdle
    /\ FetchIdle
    /\ AlertIdle
    /\ WatchIdle

EdgeSpec == EdgeInit /\ [][Next]_vars

(***************************************************************************)
(* The engine on series long enough for the pressure, grown by prices      *)
(* that pull the momentum down by different amounts.                       *)
(***************************************************************************)
PressureLens == {42, 48}
PressurePrices == {80, 124, 131}

\* 101, 102, ..., 143: a steady climb
ClimbSeries == [i \in 1..43 |-> Num(100 + i)]

PressureInit ==
    /\ \/ \E shape \in Shapes, n \in PressureLens :
              price_history = BaseSeries(shape, "bare", n, 0)
       \/ price_history = ClimbSeries
       \/ price_history = Append(ClimbSeries, Num(144))
    /\ appended = 0
    /\ result = <<>>
    /\ analysis = <<>>
    /\ calls = [c \in 1..NumCalls |-> IdleCall]
    /\ BlendIdle
    /\ FetchIdle
    /\ AlertIdle
    /\ WatchIdle

\* the caller adds a price
AppendPrice ==
    /\ appended < MaxAppend
    /\ \E p \in PressurePrices : price_history' = Append(price_history, Num(p))
    /\ appended' = appended + 1
    /\ result' = <<>>
    /\ analysis' = <<>>
    /\ UNCHANGED other_vars

PressureNext == AppendPrice \/ Calculate

PressureSpec == PressureInit /\ [][PressureNext]_vars

(***************************************************************************)
(* The engine on series around HEALTH_WINDOW_DAYS items long, where the    *)
(* trim of lines 243-246 applies, grown by one item of any kind.           *)
(***************************************************************************)
WindowLens == {HEALTH_WINDOW_DAYS - 1, HEALTH_WINDOW_DAYS + 1}
MaxWindowAppend == 1

WindowInit ==
    /\ \E kind \in {"bare", "rec"}, n \in WindowLens :
          \E hole \in {0, 1, n \div 2} :
              price_history = BaseSeries("wave", kind, n, hole)
    /\ appended = 0
    /\ result = <<>>
    /\ analysis = <<>>
    /\ calls = [c \in 1..NumCalls |-> IdleCall]
    /\ BlendIdle
    /\ FetchIdle
    /\ AlertIdle
    /\ WatchIdle

\* the caller adds an item: a number, a record or None
AppendItem ==
    /\ appended < MaxWindowAppend
    /\ \E item \in BareItems \union RecordItems \union {NoneV} :
           price_history' = Append(price_history, item)
    /\ appended' = appended + 1
    /\ result' = <<>>
    /\ analysis' = <<>>
    /\ UNCHANGED other_vars

WindowNext == AppendItem \/ Calculate

WindowSpec == WindowInit /\ [][WindowNext]_vars

(***************************************************************************)
(* The engine on lists of numbers that rise or fall at every step, the     *)
(* lists of test_momentum.py lines 34 and 50 among them, grown by numbers  *)
(* that keep the direction.                                                *)
(***************************************************************************)
TrendLens == {6, 10, 41, 199}
TrendBases == {10, 100}
TrendSteps == {1, 3}
MaxExtend == 2

TrendSeries(dir, n, base, step) ==
    [i \in 1..n |-> Num(IF dir = "up" THEN base + (i - 1) * step
                                     ELSE base + (n - i) * step)]

TrendInit ==
    /\ \E dir \in {"up", "down"}, n \in TrendLens, base \in TrendBases,
          step \in TrendSteps :
           price_history = TrendSeries(dir, n, base, step)
    /\ appended = 0
    /\ result = <<>>
    /\ analysis = <<>>
    /\ calls = [c \in 1..NumCalls |-> IdleCall]
    /\ BlendIdle
    /\ FetchIdle
    /\ AlertIdle
    /\ WatchIdle

\* the number that continues the list by d
NextInTrend(h, d) ==
    IF h[Len(h)].v > h[Len(h) - 1].v THEN h[Len(h)].v + d ELSE h[Len(h)].v - d

\* the caller adds a number that keeps the direction of the list
ExtendTrend ==
    /\ appended < MaxExtend
    /\ \E d \in TrendSteps :
           /\ NextInTrend(price_history, d) > 0
           /\ price_history' = Append(price_history, Num(NextInTrend(price_history, d)))
    /\ appended' = appended + 1
    /\ result' = <<>>
    /\ analysis' = <<>>
    /\ UNCHANGED other_vars

TrendNext == ExtendTrend \/ Calculate

TrendSpec == TrendInit /\ [][TrendNext]_vars

(***************************************************************************)
(* fetch_price_history (market_data_source.py lines 23-86).  The provider  *)
(* answers with a time series keyed by date, with nothing, or the request  *)
(* or the parsing fails.  A date is the number of a day; a record keeps    *)
(* the date it came from beside close and volume, for the properties.      *)
(***************************************************************************)
DEFAULT_LOOKBACK_DAYS == 90
CACHE_TTL_SECONDS == 120

\* (ticker or "").strip().upper(), line 33: a raw ticker is a symbol in
\* some spelling
RawTickers == [sym : Symbols, form : {"upper", "lower padded"}]
Normalize(raw) == raw.sym

\* the dates of a time series of n trading days: weekends are left out
MaxDate == 150
TradingDay(d) == d % 7 \notin {6, 0}
TimeSeriesDates(n) ==
    {d \in 1..MaxDate :
        TradingDay(d) /\ Cardinality({e \in 1..d : TradingDay(e)}) <= n}

\* what the provider answers: a time series of so many days, or an
\* exception raised inside the try block (the request failing, the body
\* not being JSON, an entry without "4. close")
SeriesSizes == {0, 1, DEFAULT_LOOKBACK_DAYS - 1, DEFAULT_LOOKBACK_DAYS,
                DEFAULT_LOOKBACK_DAYS + 7}
FetchExceptions == {"ConnectionError", "JSONDecodeError", "KeyError"}

\* sorted(time_series.items()), lines 60-66: the records by ascending date
RECURSIVE SortedRecords(_, _, _)
SortedRecords(dates, lo, hi) ==
    IF lo = hi
    THEN IF lo \in dates
         THEN <<[date |-> lo, close |-> 100 + lo, volume |-> 1000 + lo]>>
         ELSE <<>>
    ELSE SortedRecords(dates, lo, (lo + hi) \div 2)
         \o SortedRecords(dates, (lo + hi) \div 2 + 1, hi)

\* line 68: price_history[-DEFAULT_LOOKBACK_DAYS:]
\* (LastRecords_All: the whole list)
LastRecords_All(records) == records
LastRecords(records) == LastN(records, Min(Len(records), DEFAULT_LOOKBACK_DAYS))

\* lines 80-86: what leaves the try block when exc was raised inside it;
\* json's JSONDecodeError is a ValueError
\* (Reraise_AsIs: the exception propagates as it is)
IsValueError(exc) == exc \in {"ValueError", "JSONDecodeError"}
Reraise_AsIs(exc) == exc
Reraise(exc) == IF IsValueError(exc) THEN exc ELSE "ValueError"

\* the call ended with an exception
Raised(t, exc, entry) ==
    [raised |-> TRUE, exc |-> exc, symbol |-> t, prices |-> <<>>,
     from_cache |-> FALSE, entry_before |-> entry, age |-> 0]

\* the call returned prices
Returned(t, prices, from_cache, entry, age) ==
    [raised |-> FALSE, exc |-> "", symbol |-> t, prices |-> prices,
     from_cache |-> from_cache, entry_before |-> entry, age |-> age]

\* lines 37-41: the cached list is served
ServesCache(t) == cache[t] # <<>> /\ now - cache[t][1].ts < CACHE_TTL_SECONDS

\* the cache is fresh for the symbol
FetchCached ==
    \E raw \in RawTickers :
        /\ ServesCache(Normalize(raw))
        /\ fetched' = <<Returned(Normalize(raw), cache[Normalize(raw)][1].prices,
                                  TRUE, cache[Normalize(raw)],
                                  now - cache[Normalize(raw)][1].ts)>>
        /\ UNCHANGED <<cache, now, ticks>>
        /\ UNCHANGED beyond_fetch

\* lines 50-78 on a time series of n days
FetchedSeries(t, records) ==
    IF records = <<>> \/ Len(LastRecords(records)) < DEFAULT_LOOKBACK_DAYS
    THEN Raised(t, Reraise("ValueError"), cache[t])
    ELSE Returned(t, LastRecords(records), FALSE, cache[t], 0)

\* the provider is asked and answers with a time series
FetchSeries ==
    \E raw \in RawTickers, n \in SeriesSizes :
        /\ ~ServesCache(Normalize(raw))
        /\ fetched' = <<FetchedSeries(Normalize(raw),
                                       SortedRecords(TimeSeriesDates(n), 1, MaxDate))>>
        /\ cache' = IF fetched'[1].raised THEN cache
                    ELSE [cache EXCEPT ![Normalize(raw)] =
                             <<[ts |-> now, prices |-> fetched'[1].prices]>>]
        /\ UNCHANGED <<now, ticks>>
        /\ UNCHANGED beyond_fetch

\* the provider is asked and the request or the parsing raises
FetchFails ==
    \E raw \in RawTickers, exc \in FetchExceptions :
        /\ ~ServesCache(Normalize(raw))
        /\ fetched' = <<Raised(Normalize(raw), Reraise(exc), cache[Normalize(raw)])>>
        /\ UNCHANGED <<cache, now, ticks>>
        /\ UNCHANGED beyond_fetch

\* time passes
ClockSteps == {1, 119}
MaxTicks == 3
Tick ==
    /\ ticks < MaxTicks
    /\ \E d \in ClockSteps : now' = now + d
    /\ ticks' = ticks + 1
    /\ UNCHANGED <<cache, fetched>>
    /\ UNCHANGED beyond_fetch

FetchInit == FetchIdle /\ EngineIdle /\ BlendIdle /\ AlertIdle /\ WatchIdle

FetchNext == FetchCached \/ FetchSeries \/ FetchFails \/ Tick

FetchSpec == FetchInit /\ [][FetchNext]_vars

(***************************************************************************)
(* The blend on its own: four subscores anywhere in [0, 1], one of them    *)
(* raised at a time.                                                       *)
(***************************************************************************)
SubscoreGrid == {0, 1700, 4500, 5500, 8300, ONE}
RaiseSteps == {1, 40, 1300}
MaxRaises == 2

BlendInit ==
    /\ subs \in [{"structure", "momentum", "risk", "participation"} -> SubscoreGrid]
    /\ final_score = FinalScore(subs)
    /\ score_before = final_score
    /\ raises = 0
    /\ EngineIdle
    /\ FetchIdle
    /\ AlertIdle
    /\ WatchIdle

\* one subscore is raised, the other three stay
RaiseSubscore ==
    /\ raises < MaxRaises
    /\ \E name \in DOMAIN subs, d \in RaiseSteps :
           /\ subs[name] + d <= ONE
           /\ subs' = [subs EXCEPT ![name] = @ + d]
    /\ final_score' = FinalScore(subs')
    /\ score_before' = final_score
    /\ raises' = raises + 1
    /\ UNCHANGED beyond_blend

BlendNext == RaiseSubscore

BlendSpec == BlendInit /\ [][BlendNext]_vars

(***************************************************************************)
(* run_alerts_once (alerts_service.py lines 35-125) on the two tables of   *)
(* alert_store.py.  A stored time is the text now.isoformat() + "Z": the   *)
(* seconds it was made from and whether it still ends in "Z".  None is     *)
(* <<>>, a value v that is present is <<v>>.                               *)
(***************************************************************************)
COOLDOWN_SECONDS == 6 * 60 * 60

\* _trend_bucket: float(None) raises, which gives "unknown"
TrendBucket(score) ==
    IF score = <<>> THEN "unknown"
    ELSE IF score[1] >= 70 THEN "strong"
    ELSE IF score[1] >= 50 THEN "moderate"
    ELSE "weak"

\* DECAY_ORDER.get(decay, 0)
DecayOrder(decay) ==
    CASE decay = "None" -> 0
      [] decay = "Mild" -> 1
      [] decay = "Elevated" -> 2
      [] OTHER -> 0

\* lines 54-59: what a run reads off the signals of an analysis
Observed(signals) ==
    [regime |-> signals.regime,
     bucket |-> TrendBucket(signals.trend_score),
     decay |-> signals.momentum_decay]

\* now.isoformat() + "Z", last_sent.replace("Z", "") and
\* datetime.fromisoformat, which raises on a text it cannot read
IsoZ(t) == [iso |-> t, z |-> TRUE]
StripZ_Keep(text) == text
StripZ(text) == [text EXCEPT !.z = FALSE]
FromIsoFormat(text) == IF text.z THEN <<>> ELSE <<text.iso>>

\* upsert_state (alert_store.py lines 125-161) on the row of one pair
UpsertState(state, obs) ==
    IF state # <<>>
    THEN <<[state[1] EXCEPT !.last_regime = obs.regime,
                            !.last_trend_bucket = obs.bucket,
                            !.last_decay = obs.decay]>>
    ELSE <<[last_regime |-> obs.regime, last_trend_bucket |-> obs.bucket,
            last_decay |-> obs.decay, last_sent_at |-> <<>>]>>

\* update_last_sent (lines 164-175): an UPDATE, which changes no absent row
UpdateLastSent(state, text) ==
    IF state # <<>> THEN <<[state[1] EXCEPT !.last_sent_at = <<text>>]>> ELSE <<>>

\* lines 75-82: the cooldown check; an exception in it is passed over
\* (InCooldown_Never: no cooldown at all)
InCooldown_Never(row, t) == FALSE
InCooldown(row, t) ==
    /\ row.last_sent_at # <<>>
    /\ FromIsoFormat(StripZ(row.last_sent_at[1])) # <<>>
    /\ t - FromIsoFormat(StripZ(row.last_sent_at[1]))[1] < COOLDOWN_SECONDS

\* lines 86-98: the three reasons
RegimeFlipped(row, obs) == obs.regime # <<>> /\ obs.regime # row.last_regime
BucketChanged(row, obs) == obs.bucket # row.last_trend_bucket
\* (DecayWorsened_Changed: any change of decay counts)
DecayWorsened_Changed(row, obs) ==
    obs.decay # <<>> /\ row.last_decay # <<>> /\ obs.decay # row.last_decay
DecayWorsened(row, obs) ==
    /\ obs.decay # <<>> /\ row.last_decay # <<>>
    /\ DecayOrder(obs.decay[1]) > DecayOrder(row.last_decay[1])

Reasons(row, obs) ==
    (IF RegimeFlipped(row, obs)
     THEN <<[text |-> "Regime changed to", value |-> obs.regime[1]]>> ELSE <<>>)
    \o (IF BucketChanged(row, obs)
        THEN <<[text |-> "Trend strength changed to", value |-> obs.bucket]>> ELSE <<>>)
    \o (IF DecayWorsened(row, obs)
        THEN <<[text |-> "Momentum decay worsened to", value |-> obs.decay[1]]>>
        ELSE <<>>)

\* lines 100-123 for a pair that has a row and is out of cooldown
Checked(state, obs, reasons, t) ==
    [path |-> "checked", reasons |-> reasons,
     state |-> UpsertState(IF reasons # <<>> THEN UpdateLastSent(state, IsoZ(t))
                           ELSE state, obs)]

\* one turn of the loop of lines 50-123, state being what get_state returned
\* (FirstTime_Checked: a pair without a row is compared with an empty row)
FirstTime_Checked(obs, t) ==
    Checked(UpsertState(<<>>, [regime |-> <<>>, bucket |-> "", decay |-> <<>>]),
            obs,
            Reasons([last_regime |-> <<>>, last_trend_bucket |-> "",
                     last_decay |-> <<>>, last_sent_at |-> <<>>], obs),
            t)
FirstTime(obs, t) ==
    [path |-> "init", reasons |-> <<>>, state |-> UpsertState(<<>>, obs)]

EvaluatePair(state, obs, t) ==
    IF state = <<>> THEN FirstTime(obs, t)
    ELSE IF InCooldown(state[1], t)
    THEN [path |-> "cooldown", reasons |-> <<>>, state |-> state]
    ELSE Checked(state, obs, Reasons(state[1], obs), t)

\* what the engine can return for a ticker: a label and score that go
\* together (lines 267-272) and a delta, or no delta below 11 items
EngineOutcome(label, score, delta) ==
    [raised |-> FALSE, label |-> label, score |-> score,
     delta_since_close |-> delta, momentum_decay |-> "Stable",
     components |-> ComponentsKey(NeutralComponents),
     comps_now |-> NeutralComponents]

AlertMomenta ==
    {EngineOutcome("Sideways", 55, d) : d \in {<<>>, <<0>>, <<-4>>, <<-8>>}}
        \union {EngineOutcome("Uptrend", 75, <<0>>)}

\* analyze_ticker(ticker) as a run sees it (line 51): the price step fails
\* or the engine returns
AlertAnalyses ==
    {AnalysisOf(TRUE, fetch_ok, TRUE, TRUE, momentum) :
        fetch_ok \in BOOLEAN, momentum \in AlertMomenta}

\* get_rules(enabled_only=True) grouped by pair, lines 43-48
EnabledPairs == {p \in Pairs : alert_rules[p] = "on"}

AlertClockSteps == {COOLDOWN_SECONDS - 1, COOLDOWN_SECONDS}
MaxAlertTicks == 2
MaxRuns == 3

\* what a whole run does to one pair, seen being the analysis of its
\* ticker; within a run the analyses of one ticker come from one cached
\* price history (market_data_source.py lines 36-41)
RunOnPair(p, seen) ==
    EvaluatePair(alert_state[p], Observed(seen.signals), clock)

\* the entry of last_run for a pair the run evaluated
Evaluated(p, seen) ==
    <<[ok |-> seen.ok,
       label |-> IF seen.momentum = <<>> THEN <<>> ELSE <<seen.momentum[1].label>>,
       signals |-> seen.signals,
       before |-> alert_state[p],
       path |-> RunOnPair(p, seen).path,
       reasons |-> RunOnPair(p, seen).reasons]>>

\* run_alerts_once from start to return, no other run in progress
RunAlertsOnce ==
    /\ runs < MaxRuns
    /\ \A r \in Runners : runners[r].pc = "idle"
    /\ \E seen \in AlertAnalyses :
          /\ alert_state' = [p \in Pairs |->
                 IF p \in EnabledPairs THEN RunOnPair(p, seen).state
                 ELSE alert_state[p]]
          /\ last_run' = <<[now |-> clock,
                           pairs |-> [p \in Pairs |->
                               IF p \in EnabledPairs THEN Evaluated(p, seen)
                               ELSE <<>>]]>>
          /\ alerted_at' = [p \in Pairs |->
                 IF p \in EnabledPairs /\ RunOnPair(p, seen).reasons # <<>>
                 THEN Append(alerted_at[p], clock) ELSE alerted_at[p]]
    /\ runs' = runs + 1
    /\ UNCHANGED <<alert_rules, clock, alert_ticks, runners>>
    /\ UNCHANGED beyond_alerts

\* upsert_rule(email, ticker, enabled), alert_store.py lines 87-113
UpsertRule ==
    /\ \E p \in Pairs, enabled \in BOOLEAN :
          /\ alert_rules[p] # (IF enabled THEN "on" ELSE "off")
          /\ alert_rules' = [alert_rules EXCEPT ![p] = IF enabled THEN "on" ELSE "off"]
    /\ UNCHANGED <<alert_state, clock, alert_ticks, runs, last_run, alerted_at,
                   runners>>
    /\ UNCHANGED beyond_alerts

\* time passes
AlertTick ==
    /\ alert_ticks < MaxAlertTicks
    /\ \E d \in AlertClockSteps : clock' = clock + d
    /\ alert_ticks' = alert_ticks + 1
    /\ UNCHANGED <<alert_rules, alert_state, runs, last_run, alerted_at, runners>>
    /\ UNCHANGED beyond_alerts

AlertInit == AlertIdle /\ EngineIdle /\ BlendIdle /\ FetchIdle /\ WatchIdle

AlertNext == UpsertRule \/ AlertTick \/ RunAlertsOnce

AlertSpec == AlertInit /\ [][AlertNext]_vars

(***************************************************************************)
(* Two threads in run_alerts_once: the scheduler thread (app.py lines      *)
(* 109-138) and the handler of POST /alerts/run_once (lines 303-322); no   *)
(* lock is taken.  Each call of alert_store.py opens its own connection,   *)
(* so the calls of one run are separate steps and the calls of the other   *)
(* run fall between them.  One pair has its rule enabled.                  *)
(***************************************************************************)
ConcAnalyses ==
    {AnalysisOf(TRUE, TRUE, TRUE, TRUE, EngineOutcome("Sideways", 55, <<0>>)),
     AnalysisOf(TRUE, TRUE, TRUE, TRUE, EngineOutcome("Uptrend", 75, <<0>>))}

\* what a run notes of a pair it evaluated
MetEntry(seen, before, path, reasons) ==
    <<[ok |-> seen.ok,
       label |-> IF seen.momentum = <<>> THEN <<>> ELSE <<seen.momentum[1].label>>,
       signals |-> seen.signals, before |-> before, path |-> path,
       reasons |-> reasons]>>

\* lines 40-48: now is read and the enabled rules are fetched
StartRun(r) ==
    /\ runs < MaxRuns
    /\ runners[r].pc = "idle"
    /\ runners' = [runners EXCEPT ![r] =
           [IdleRunner EXCEPT !.pc = "loop", !.now = clock, !.todo = EnabledPairs]]
    /\ runs' = runs + 1
    /\ UNCHANGED <<alert_rules, alert_state, clock, alert_ticks, last_run, alerted_at>>
    /\ UNCHANGED beyond_alerts

\* lines 51-98 for the row get_state returned: where the turn goes next
TurnAfterRead(run, p, seen, state) ==
    IF state = <<>>
    THEN [run EXCEPT !.pc = "first", !.pair = <<p>>, !.seen = <<seen>>,
                     !.state = state, !.reasons = <<>>]
    ELSE IF InCooldown(state[1], run.now)
    THEN [run EXCEPT !.todo = run.todo \ {p},
                     !.met = [run.met EXCEPT ![p] =
                                 MetEntry(seen, state, "cooldown", <<>>)]]
    ELSE [run EXCEPT !.pc = IF Reasons(state[1], Observed(seen.signals)) # <<>>
                            THEN "send" ELSE "upsert",
                     !.pair = <<p>>, !.seen = <<seen>>, !.state = state,
                     !.reasons = Reasons(state[1], Observed(seen.signals))]

\* lines 51-98: analyze_ticker, get_state and what follows from them
ReadState(r) ==
    /\ runners[r].pc = "loop"
    /\ \E p \in runners[r].todo, seen \in ConcAnalyses :
          runners' = [runners EXCEPT ![r] =
              TurnAfterRead(runners[r], p, seen, alert_state[p])]
    /\ UNCHANGED <<alert_rules, alert_state, clock, alert_ticks, runs, last_run,
                   alerted_at>>
    /\ UNCHANGED beyond_alerts

\* lines 100-114: the alert is triggered and update_last_sent is called
SendAlert(r) ==
    /\ runners[r].pc = "send"
    /\ alert_state' = [alert_state EXCEPT ![runners[r].pair[1]] =
           UpdateLastSent(@, IsoZ(runners[r].now))]
    /\ alerted_at' = [alerted_at EXCEPT ![runners[r].pair[1]] =
           Append(@, runners[r].now)]
    /\ runners' = [runners EXCEPT ![r].pc = "upsert"]
    /\ UNCHANGED <<alert_rules, clock, alert_ticks, runs, last_run>>
    /\ UNCHANGED beyond_alerts

\* the turn is over: the pair is noted and the loop goes on
TurnDone(run) ==
    [run EXCEPT !.pc = "loop", !.todo = run.todo \ {run.pair[1]},
                !.met = [run.met EXCEPT ![run.pair[1]] =
                    MetEntry(run.seen[1], run.state,
                             IF run.pc = "first" THEN "init" ELSE "checked",
                             run.reasons)]]

\* the upsert_state call of lines 65-71 or 117-123
StoreState(r) ==
    /\ runners[r].pc \in {"first", "upsert"}
    /\ alert_state' = [alert_state EXCEPT ![runners[r].pair[1]] =
           UpsertState(@, Observed(runners[r].seen[1].signals))]
    /\ runners' = [runners EXCEPT ![r] = TurnDone(runners[r])]
    /\ UNCHANGED <<alert_rules, clock, alert_ticks, runs, last_run, alerted_at>>
    /\ UNCHANGED beyond_alerts

\* upsert_state found no row (line 135) and the other thread inserted one
\* before its INSERT (line 153): UNIQUE(email, ticker) fails, the run ends
\* with sqlite3.IntegrityError
StoreStateFails(r) ==
    /\ runners[r].pc = "first"
    /\ alert_state[runners[r].pair[1]] # <<>>
    /\ runners' = [runners EXCEPT ![r] = IdleRunner]
    /\ UNCHANGED <<alert_rules, alert_state, clock, alert_ticks, runs, last_run,
                   alerted_at>>
    /\ UNCHANGED beyond_alerts

\* line 125: the loop is over
ReturnRun(r) ==
    /\ runners[r].pc = "loop"
    /\ runners[r].todo = {}
    /\ last_run' = <<[now |-> runners[r].now, pairs |-> runners[r].met]>>
    /\ runners' = [runners EXCEPT ![r] = IdleRunner]
    /\ UNCHANGED <<alert_rules, alert_state, clock, alert_ticks, runs, alerted_at>>
    /\ UNCHANGED beyond_alerts

AlertConcInit ==
    /\ alert_rules = [p \in Pairs |-> IF p = <<"ann@x.io", "AAPL">> THEN "on" ELSE "none"]
    /\ alert_state = [p \in Pairs |-> <<>>]
    /\ clock = 0
    /\ alert_ticks = 0
    /\ runs = 0
    /\ last_run = <<>>
    /\ alerted_at = [p \in Pairs |-> <<>>]
    /\ runners = [r \in Runners |-> IdleRunner]
    /\ EngineIdle /\ BlendIdle /\ FetchIdle /\ WatchIdle

AlertConcNext ==
    \/ AlertTick
    \/ \E r \in Runners :
          \/ StartRun(r) \/ ReadState(r) \/ SendAlert(r) \/ StoreState(r)
          \/ StoreStateFails(r) \/ ReturnRun(r)

AlertConcSpec == AlertConcInit /\ [][AlertConcNext]_vars

(***************************************************************************)
(* watchlist_service.py: add_to_watchlist and remove_from_watchlist on the *)
(* JSON file.  A ticker is a symbol in some spelling; the upper-case       *)
(* spelling without blanks around it is the normalized one, and a text of  *)
(* blanks only has the symbol "".                                          *)
(***************************************************************************)
FREE_WATCHLIST_LIMIT == 3
PREMIUM_WATCHLIST_LIMIT == 50

WatchSymbols == {"AAPL", "MSFT", "NVDA", "TSLA"}
RawWatchTickers ==
    [sym : WatchSymbols, form : {"upper", "lower padded"}]
        \union {[sym |-> "", form |-> "blank"]}

\* _normalize_ticker, lines 64-65 (NormalizeTicker_AsGiven: the text as given)
NormalizeTicker_AsGiven(ticker) == ticker
NormalizeTicker(ticker) ==
    IF ticker.sym = "" THEN [sym |-> "", form |-> "upper"]
    ELSE [sym |-> ticker.sym, form |-> "upper"]

\* is_premium, billing/feature_flags.py lines 25-42
IsPremium(user_id) == FALSE

\* _get_limit_for_user, lines 68-69
LimitForUser(user_id) ==
    IF IsPremium(user_id) THEN PREMIUM_WATCHLIST_LIMIT ELSE FREE_WATCHLIST_LIMIT

\* ticker in watchlist
InList(ticker, watchlist) == \E i \in DOMAIN watchlist : watchlist[i] = ticker

\* line 110 (AtLimit_Above: the list may grow to the limit and one more)
AtLimit_Above(watchlist, limit) == Len(watchlist) > limit
AtLimit(watchlist, limit) == Len(watchlist) >= limit

\* line 103: the stored list, each ticker normalized
NormalizedList(watchlist) ==
    [i \in DOMAIN watchlist |-> NormalizeTicker(watchlist[i])]

\* list.remove: the first occurrence is taken out
RemoveFirst(watchlist, ticker) ==
    LET k == CHOOSE i \in DOMAIN watchlist :
                 /\ watchlist[i] = ticker
                 /\ \A j \in 1..(i - 1) : watchlist[j] # ticker
    IN  SubSeq(watchlist, 1, k - 1) \o SubSeq(watchlist, k + 1, Len(watchlist))

\* how a call ended: what it returned or raised and what the file held before
WatchCall(op, user_id, ticker, outcome, returned, before) ==
    <<[op |-> op, user |-> user_id, ticker |-> ticker, outcome |-> outcome,
       returned |-> returned, before |-> before]>>

\* add_to_watchlist(user_id, ticker) on the stored list of the user
AddOutcome(user_id, ticker, watchlist) ==
    IF ticker.sym = "" THEN "ValueError"
    ELSE IF InList(ticker, watchlist) THEN "present"
    ELSE IF AtLimit(watchlist, LimitForUser(user_id))
    THEN IF ~IsPremium(user_id) THEN "ProRequiredError" ELSE "ValueError"
    ELSE "added"

AddToWatchlist ==
    /\ \E user_id \in Users, raw \in RawWatchTickers :
          /\ watchlists' =
                IF AddOutcome(user_id, NormalizeTicker(raw),
                              NormalizedList(watchlists[user_id])) = "added"
                THEN [watchlists EXCEPT ![user_id] =
                         Append(NormalizedList(watchlists[user_id]),
                                NormalizeTicker(raw))]
                ELSE watchlists
          /\ watch_call' =
                WatchCall("add", user_id, NormalizeTicker(raw),
                          AddOutcome(user_id, NormalizeTicker(raw),
                                     NormalizedList(watchlists[user_id])),
                          IF AddOutcome(user_id, NormalizeTicker(raw),
                                        NormalizedList(watchlists[user_id])) = "added"
                          THEN Append(NormalizedList(watchlists[user_id]),
                                      NormalizeTicker(raw))
                          ELSE NormalizedList(watchlists[user_id]),
                          watchlists[user_id])
    /\ UNCHANGED beyond_watchlist

\* remove_from_watchlist(user_id, ticker), lines 122-133
RemoveFromWatchlist ==
    /\ \E user_id \in Users, raw \in RawWatchTickers :
          /\ watchlists' =
                IF InList(NormalizeTicker(raw), watchlists[user_id])
                THEN [watchlists EXCEPT ![user_id] =
                         RemoveFirst(watchlists[user_id], NormalizeTicker(raw))]
                ELSE watchlists
          /\ watch_call' =
                WatchCall("remove", user_id, NormalizeTicker(raw),
                          IF InList(NormalizeTicker(raw), watchlists[user_id])
                          THEN "removed" ELSE "absent",
                          IF InList(NormalizeTicker(raw), watchlists[user_id])
                          THEN RemoveFirst(watchlists[user_id], NormalizeTicker(raw))
                          ELSE watchlists[user_id],
                          watchlists[user_id])
    /\ UNCHANGED beyond_watchlist

WatchInit == WatchIdle /\ EngineIdle /\ BlendIdle /\ FetchIdle /\ AlertIdle

WatchNext == AddToWatchlist \/ RemoveFromWatchlist

WatchSpec == WatchInit /\ [][WatchNext]_vars

(***************************************************************************)
(* Vocabulary of the properties: the valid prices of an input, read off    *)
(* the conditions of _extract_series one item at a time.                   *)
(***************************************************************************)
\* the close of a record: item.get("close", item.get("price"))
CloseOf(item) == IF item.close.t # "missing" THEN item.close ELSE item.price

\* the item contributes a price
ValidPrice(item) ==
    \/ item.t \in {"num", "huge"} /\ item.v > 0
    \/ item.t = "dict" /\ CloseOf(item).t \in {"num", "huge"} /\ CloseOf(item).v > 0

PriceOf(item) == IF item.t = "num" THEN item.v ELSE CloseOf(item).v

\* the number of valid prices, and the valid prices in input order
NumValid(h) == Cardinality({i \in 1..Len(h) : ValidPrice(h[i])})
ValidItems(h) == SelectSeq(h, ValidPrice)
ValidPrices(h) == [i \in 1..Len(ValidItems(h)) |-> PriceOf(ValidItems(h)[i])]

\* a record with a valid close and a numeric volume >= 0
FullRecord(item) ==
    /\ item.t = "dict"
    /\ ValidPrice(item)
    /\ item.volume.t \in {"num", "huge"} /\ item.volume.v >= 0

SubscoreNames == {"structure", "momentum", "risk", "participation"}

(***************************************************************************)
(* Properties.  A subscore reported in the result is in units of 1e-3, an  *)
(* unrounded one (s_structure, s_risk) in units of 1e-4.                   *)
(***************************************************************************)

\* C1: whenever calculate_momentum_with_delta returns, on the neutral path
\* as on the scored path, the score is an integer in 0..100 and each of the
\* four reported subscores is in [0, 1].
ScoreAndSubscoresInRange ==
    result # <<>> /\ ~result[1].raised =>
        /\ result[1].score \in 0..100
        /\ DOMAIN result[1].components.subscores = SubscoreNames
        /\ \A k \in SubscoreNames : result[1].components.subscores[k] \in 0..1000

\* a scored result (not the neutral one) with volumes in use and a high score
ScoredHighWithVolume ==
    /\ result # <<>> /\ ~result[1].raised
    /\ result[1].comps_now.scored
    /\ result[1].comps_now.has_volume
    /\ result[1].score >= 80

\* C2: the label is one of Uptrend, Sideways, Downtrend; it is Uptrend
\* exactly when score >= 60 and structure >= 0.55, Downtrend exactly when
\* score <= 40 and structure <= 0.45, Sideways otherwise (so for every score
\* in 41..59); the score is the one after the risk cap, the structure the
\* subscore the call computed, and the implications hold of the reported
\* (rounded) structure too.
LabelDeterminedByScoreAndStructure ==
    result # <<>> /\ ~result[1].raised =>
        /\ result[1].label \in {"Uptrend", "Sideways", "Downtrend"}
        /\ result[1].label = "Uptrend"
               <=> (result[1].score >= 60 /\ result[1].comps_now.s_structure >= 5500)
        /\ result[1].label = "Downtrend"
               <=> (result[1].score <= 40 /\ result[1].comps_now.s_structure <= 4500)
        /\ result[1].score \in 41..59 => result[1].label = "Sideways"
        /\ result[1].label = "Uptrend" => result[1].components.subscores.structure >= 550
        /\ result[1].label = "Downtrend" => result[1].components.subscores.structure <= 450

\* a low score that is not a Downtrend because the structure is above 0.45
SidewaysDespiteLowScore ==
    /\ result # <<>> /\ ~result[1].raised
    /\ result[1].comps_now.scored
    /\ result[1].score <= 40
    /\ result[1].comps_now.s_structure > 4500
    /\ result[1].label = "Sideways"

\* C3: on the scored path the final score is at most round(30 + 70 * risk),
\* risk being the risk subscore of the same call; when that subscore is 0
\* (computed, or as reported) the score is at most 30.
RiskCapBoundsScore ==
    result # <<>> /\ ~result[1].raised /\ result[1].comps_now.scored =>
        /\ result[1].score
               <= RoundHalfEven(30 * ONE + 70 * result[1].comps_now.s_risk, ONE)
        /\ result[1].comps_now.s_risk = 0 => result[1].score <= 30
        /\ result[1].components.subscores.risk = 0 => result[1].score <= 30

\* the risk subscore is 0 and the curve gave more than 30: the cap acted
RiskZeroCapActs ==
    /\ result # <<>> /\ ~result[1].raised
    /\ result[1].comps_now.scored
    /\ result[1].comps_now.s_risk = 0
    /\ result[1].comps_now.curved > 30
    /\ result[1].score = 30

\* C4: whenever the call returns for an input with fewer than 10 valid
\* prices, it returns the neutral result (Sideways, 50, four subscores of
\* 0.5, has_volume False), and the extractor returns no prices and no
\* volumes for that input.
FewValidPricesGiveNeutral ==
    result # <<>> /\ ~result[1].raised /\ NumValid(price_history) < 10 =>
        /\ result[1].label = "Sideways"
        /\ result[1].score = 50
        /\ \A k \in SubscoreNames : result[1].components.subscores[k] = 500
        /\ ~result[1].comps_now.has_volume
        /\ ExtractSeries(price_history).prices = <<>>
        /\ ExtractSeries(price_history).volumes = <<>>

\* eleven items of which nine are valid prices, scored as neutral
NineValidAmongEleven ==
    /\ result # <<>> /\ ~result[1].raised
    /\ Len(price_history) = 11
    /\ NumValid(price_history) = 9
    /\ result[1].score = 50

\* C5: for an input with at least 10 valid prices, has_volume is True only
\* if every item is a record with a valid close and a numeric volume >= 0;
\* when one item is not, has_volume is False and participation is 0.5; and
\* the prices the call scores are all the valid prices, in input order.
VolumeAllOrNothing ==
    result # <<>> /\ ~result[1].raised /\ NumValid(price_history) >= 10 =>
        /\ result[1].comps_now.has_volume
               => \A i \in 1..Len(price_history) : FullRecord(price_history[i])
        /\ (\E i \in 1..Len(price_history) : ~FullRecord(price_history[i]))
               => /\ ~result[1].comps_now.has_volume
                  /\ result[1].components.subscores.participation = 500
        /\ ExtractSeries(price_history).prices = ValidPrices(price_history)
        /\ result[1].comps_now.scored

\* records with volume except exactly one, which lacks a usable volume or
\* a valid close
OneRecordSpoilsVolume ==
    /\ result # <<>> /\ ~result[1].raised
    /\ NumValid(price_history) >= 10
    /\ \A i \in 1..Len(price_history) : price_history[i].t = "dict"
    /\ Cardinality({i \in 1..Len(price_history) : ~FullRecord(price_history[i])}) = 1
    /\ ~result[1].comps_now.has_volume

\* C6: momentum_decay is one of Stable, Easing, Elevated, and it is Stable
\* whenever the extracted price series has fewer than 41 points.
DecayStableBelow41 ==
    result # <<>> /\ ~result[1].raised =>
        /\ result[1].momentum_decay \in {"Stable", "Easing", "Elevated"}
        /\ NumValid(price_history) < 41 => result[1].momentum_decay = "Stable"

\* forty prices whose momentum pressure would classify as Elevated, were it
\* computed: the fallback is what makes the decay Stable
FortyPricesUnderPressure ==
    /\ result # <<>> /\ ~result[1].raised
    /\ NumValid(price_history) = 40
    /\ result[1].momentum_decay = "Stable"
    /\ DecayLabel(PressureZ(ValidPrices(price_history), result[1].label,
                            result[1].score)) = "Elevated"

\* C7: delta_since_close is the score minus the score _compute_components
\* gives on the input without its last item when the input has at least 11
\* items, and None when it has fewer.
DeltaIsScoreMinusPreviousScore ==
    result # <<>> /\ ~result[1].raised =>
        IF Len(price_history) >= 11
        THEN result[1].delta_since_close
                 = <<result[1].score
                     - ComputeComponents(DropLast(price_history, 1)).score>>
        ELSE result[1].delta_since_close = <<>>

\* an input of eleven items with a delta that is not zero
ElevenItemsWithDelta ==
    /\ result # <<>> /\ ~result[1].raised
    /\ Len(price_history) = 11
    /\ result[1].delta_since_close # <<>>
    /\ result[1].delta_since_close[1] # 0

\* C8: the signals of a successful analyze_ticker are the engine's outputs:
\* trend_score its score, regime its label, delta_1d its delta_since_close,
\* momentum_decay its momentum_decay.
SignalsAreEngineOutputs ==
    analysis # <<>> /\ analysis[1].ok =>
        /\ analysis[1].signals.trend_score = <<analysis[1].momentum[1].score>>
        /\ analysis[1].signals.regime = <<analysis[1].momentum[1].label>>
        /\ analysis[1].signals.delta_1d = analysis[1].momentum[1].delta_since_close
        /\ analysis[1].signals.momentum_decay
               = <<analysis[1].momentum[1].momentum_decay>>

\* C9: calculate_momentum_with_delta returns for every input, whatever its
\* items are (numbers of any sign, records with a missing, non-numeric or
\* non-positive close or a missing or negative volume, None, strings).
EngineNeverRaises ==
    result # <<>> => ~result[1].raised

\* C11: whatever other engine calls run between the steps of a call on the
\* same list, the call returns what it returns when it runs alone on the
\* list it was given, and the list is what it was
ConcurrentCallsReturnAsAlone ==
    \A c \in 1..NumCalls :
        /\ calls[c].pc # "idle" => price_history = calls[c].given
        /\ calls[c].pc = "done" =>
               calls[c].ret = <<CalculateMomentumWithDelta(calls[c].given)>>

\* a call on a list of 40 prices returned while another call was between its
\* second and its third read of the list
CallReturnedDuringAnother ==
    /\ calls[1].pc = "done" /\ ~calls[1].ret[1].raised
    /\ calls[2].pc = "decay"
    /\ Len(price_history) >= LongLen
    /\ calls[1].ret[1].delta_since_close # <<>>

\* the keys the API contract names (test_analyze_service.py lines 97-106)
RequiredKeys ==
    {"ok", "ticker", "momentum", "company_profile", "news", "summary", "error"}

\* C12: on every return path analyze_ticker returns a dict with the same key
\* set, the one of a completed analysis, and that set contains ok, ticker,
\* momentum, company_profile, news, summary and error.
AnalysisAlwaysSameShape ==
    analysis # <<>> =>
        /\ analysis[1].keys = InitialResultKeys \union CompanyKeys
        /\ RequiredKeys \subseteq analysis[1].keys

\* C13: with the other three subscores fixed, raising one of structure,
\* momentum, risk or participation never lowers the final score (blend,
\* curve, rounding and risk cap applied).
RaisingASubscoreNeverLowersScore ==
    /\ final_score = FinalScore(subs)
    /\ raises > 0 => final_score >= score_before

\* the risk subscore was raised while the cap was holding the score down,
\* and the score went up
RaisedRiskLiftsCap ==
    /\ raises > 0
    /\ final_score > score_before
    /\ score_before = RoundHalfEven(30 * ONE + 70 * (subs.risk - 1300), ONE)
    /\ final_score = RoundHalfEven(30 * ONE + 70 * subs.risk, ONE)

StrictlyIncreasing(prices) ==
    \A i \in 1..(Len(prices) - 1) : prices[i] < prices[i + 1]
StrictlyDecreasing(prices) ==
    \A i \in 1..(Len(prices) - 1) : prices[i] > prices[i + 1]

\* C14: for a strictly increasing price series of at least 200 prices the
\* last price is at or above both moving averages, the 50 average is at or
\* above the 200 average, range_pos is 1.0 and the structure subscore is
\* 1.0, as computed and as reported.
IncreasingSeriesHasFullStructure ==
    Len(ValidPrices(price_history)) >= 200
    /\ StrictlyIncreasing(ValidPrices(price_history)) =>
        /\ AtOrAboveSma(ValidPrices(price_history)[Len(price_history)],
                        ValidPrices(price_history), 50)
        /\ AtOrAboveSma(ValidPrices(price_history)[Len(price_history)],
                        ValidPrices(price_history), 200)
        /\ SmaAtOrAbove(ValidPrices(price_history), 50, 200)
        /\ RangePos(ValidPrices(price_history)) = ONE
        /\ StructureSubscore(ValidPrices(price_history)) = ONE
        /\ result # <<>> /\ ~result[1].raised =>
               result[1].components.subscores.structure = MILLI

\* a rising list grown to 201 prices was scored and reports structure 1.0
RisingListOf201Scored ==
    /\ Len(price_history) = 201
    /\ StrictlyIncreasing(ValidPrices(price_history))
    /\ result # <<>> /\ ~result[1].raised
    /\ result[1].components.subscores.structure = MILLI

FetchReturnsFullWindowOrRaises ==
    fetched # <<>> =>
        IF fetched[1].raised
        THEN /\ IsValueError(fetched[1].exc)
             /\ cache[fetched[1].symbol] = fetched[1].entry_before
        ELSE /\ Len(fetched[1].prices) = DEFAULT_LOOKBACK_DAYS
             /\ \A i \in 1..(DEFAULT_LOOKBACK_DAYS - 1) :
                    fetched[1].prices[i].date < fetched[1].prices[i + 1].date
             /\ fetched[1].from_cache => fetched[1].age < CACHE_TTL_SECONDS

\* with a list cached 120 seconds ago the provider was asked again, the
\* request failed, and the old entry is still in the cache
StaleEntryKeptAfterFailure ==
    /\ fetched # <<>> /\ fetched[1].raised
    /\ fetched[1].entry_before # <<>>
    /\ cache[fetched[1].symbol] = fetched[1].entry_before
    /\ now - cache[fetched[1].symbol][1].ts >= CACHE_TTL_SECONDS

\* the prices and volumes the subscores of price_history are computed on
ScoredPrices(h) == TrimmedPrices(ExtractSeries(h))
ScoredVolumes(h) == TrimmedVolumes(ExtractSeries(h))

\* C18: for an input with at least 10 valid prices no divisor the call
\* evaluates is zero, and each edge case takes its fallback: a price range
\* of zero gives range_pos 0.5, an average loss of zero RSI 100, a total
\* and a mean volume of zero up_ratio 0.5 and v_rel 1.0 (participation
\* 0.4625), a base of zero a percent change of 0, and a mom_vol that is not
\* positive or comes from fewer than 5 samples 0.01.
NoDivisorIsZero ==
    /\ result # <<>> /\ NumValid(price_history) >= MIN_PRICES =>
           0 \notin CallDivisors(price_history)
    /\ result # <<>> /\ ~result[1].raised /\ NumValid(price_history) >= MIN_PRICES =>
        /\ MinRange(LastN(ScoredPrices(price_history), 60), 1,
                    Min(60, Len(ScoredPrices(price_history))))
               = MaxRange(LastN(ScoredPrices(price_history), 60), 1,
                          Min(60, Len(ScoredPrices(price_history))))
           => RangePos(ScoredPrices(price_history)) = HALF
        /\ Len(ScoredPrices(price_history)) >= 15
           /\ WilderAverage(Losses(ScoredPrices(price_history)), 14) = 0
           => Rsi(ScoredPrices(price_history), 14) = ONE
        /\ ScoredVolumes(price_history) # <<>>
           /\ SumSeq(LastN(ScoredVolumes(price_history), 21)) = 0
           => ParticipationSubscore(ScoredPrices(price_history),
                                    ScoredVolumes(price_history)) = 4625
        /\ PctChange(0, ScoredPrices(price_history)[1]) = 0
        /\ DecayHasData(ValidPrices(price_history))
           /\ (RecentDeltaCount(ValidPrices(price_history)) < 5
               \/ Stdev(RecentDeltas(ValidPrices(price_history))) <= 0)
           => MomVol(RecentDeltas(ValidPrices(price_history))) = 100

\* a call on 42 or more records whose prices do not move and whose volumes
\* are all zero: range, average loss, total volume, mean volume and the
\* deviation of the recent deltas are all zero
FlatPricesZeroVolumesScored ==
    /\ result # <<>> /\ ~result[1].raised
    /\ Len(ValidPrices(price_history)) >= 42
    /\ result[1].comps_now.has_volume
    /\ SumSeq(ScoredVolumes(price_history)) = 0
    /\ MinRange(ScoredPrices(price_history), 1, Len(ScoredPrices(price_history)))
           = MaxRange(ScoredPrices(price_history), 1, Len(ScoredPrices(price_history)))
    /\ RecentDeltaCount(ValidPrices(price_history)) >= 5
    /\ Stdev(RecentDeltas(ValidPrices(price_history))) = 0

\* raw_delta / mom_vol in units of 1e-3, as the claim C19 reads it
RawZ(prices) ==
    RDiv((MomentumSubscore(prices) - MomentumSubscore(DropLast(prices, 7))) * 1000,
         MomVol(RecentDeltas(prices)))

\* z times 1.25 on Sideways, times 1.15 on Uptrend with score > 70
RegimeZ(z, label, score) ==
    IF label = "Sideways" THEN RDiv(z * 125, 100)
    ELSE IF label = "Uptrend" /\ score > 70 THEN RDiv(z * 115, 100)
    ELSE z

\* C19: with at least 41 prices, mom_vol is positive and, z being
\* raw_delta / mom_vol times 1.25 on Sideways and times 1.15 on Uptrend with
\* score > 70, momentum_decay is Elevated iff z <= -1.25, Easing iff
\* -1.25 < z <= -0.60 and Stable otherwise; it is Easing or Elevated only
\* when the momentum subscore of the full series is below that of the
\* series without its last 7 points.
DecayClassifiedByZ ==
    result # <<>> /\ ~result[1].raised /\ NumValid(price_history) >= 41 =>
        /\ MomVol(RecentDeltas(ValidPrices(price_history))) > 0
        /\ result[1].momentum_decay = "Elevated"
               <=> RegimeZ(RawZ(ValidPrices(price_history)), result[1].label,
                           result[1].score) <= -1250
        /\ result[1].momentum_decay = "Easing"
               <=> /\ RegimeZ(RawZ(ValidPrices(price_history)), result[1].label,
                              result[1].score) > -1250
                   /\ RegimeZ(RawZ(ValidPrices(price_history)), result[1].label,
                              result[1].score) <= -600
        /\ result[1].momentum_decay = "Stable"
               <=> RegimeZ(RawZ(ValidPrices(price_history)), result[1].label,
                           result[1].score) > -600
        /\ result[1].momentum_decay \in {"Easing", "Elevated"} =>
               MomentumSubscore(ValidPrices(price_history))
                   < MomentumSubscore(DropLast(ValidPrices(price_history), 7))

\* a Sideways series of at least 41 prices is Elevated because of the
\* factor 1.25: its unadjusted z is above -1.25
ElevatedByRegimeFactor ==
    /\ result # <<>> /\ ~result[1].raised
    /\ NumValid(price_history) >= 41
    /\ result[1].label = "Sideways"
    /\ result[1].momentum_decay = "Elevated"
    /\ RawZ(ValidPrices(price_history)) > -1250

\* the item of h the k-th scored price comes from
ScoredItem(h, k) ==
    ValidItems(h)[Len(ValidItems(h)) - Len(ScoredPrices(h)) + k]

\* C20: whenever the subscores are computed the price window has between 10
\* and 200 points, and if volumes are present the volume window has the
\* same length and at each index the price and the volume come from the
\* same record of the input, the trim to the last 200 points included.
PriceAndVolumeWindowsAligned ==
    result # <<>> /\ ~result[1].raised /\ result[1].comps_now.scored =>
        /\ Len(ScoredPrices(price_history)) >= MIN_PRICES
        /\ Len(ScoredPrices(price_history)) <= HEALTH_WINDOW_DAYS
        /\ \A k \in 1..Len(ScoredPrices(price_history)) :
               ScoredPrices(price_history)[k] = PriceOf(ScoredItem(price_history, k))
        /\ result[1].comps_now.has_volume = (ScoredVolumes(price_history) # <<>>)
        /\ ScoredVolumes(price_history) # <<>> =>
               /\ Len(ScoredVolumes(price_history)) = Len(ScoredPrices(price_history))
               /\ \A k \in 1..Len(ScoredPrices(price_history)) :
                      /\ ScoredItem(price_history, k).t = "dict"
                      /\ ScoredVolumes(price_history)[k]
                             = ScoredItem(price_history, k).volume.v

\* more than 200 records, the last one added by the caller, were scored
\* with their volumes, prices and volumes trimmed to 200
TrimmedWithVolumes ==
    /\ result # <<>> /\ ~result[1].raised
    /\ Len(price_history) > HEALTH_WINDOW_DAYS
    /\ appended > 0
    /\ result[1].comps_now.has_volume
    /\ Len(ScoredVolumes(price_history)) = HEALTH_WINDOW_DAYS
    /\ Len(ExtractSeries(price_history).volumes) > HEALTH_WINDOW_DAYS

\* where the 200-point window of h begins: the 200th valid item from the end
WindowStart(h) ==
    CHOOSE i \in 1..Len(h) :
        /\ ValidPrice(h[i])
        /\ Cardinality({j \in i..Len(h) : ValidPrice(h[j])}) = HEALTH_WINDOW_DAYS

\* h reduced to its most recent 200 records, and the records older than them
MostRecentWindow(h) == SubSeq(h, WindowStart(h), Len(h))
OlderRecords(h) == SubSeq(h, 1, WindowStart(h) - 1)

\* what _compute_components returns, without the locals kept beside it
Returned5(c) ==
    [label |-> c.label, score |-> c.score, subscores |-> c.subscores,
     has_volume |-> c.has_volume]

\* C21 as stated: for an input with more than 200 valid records the label,
\* score, subscores and has_volume are those of the input reduced to its
\* most recent 200 records, whatever the older records are.
OlderRecordsNeverMatter ==
    result # <<>> /\ ~result[1].raised /\ NumValid(price_history) > HEALTH_WINDOW_DAYS =>
        Returned5(result[1].comps_now)
            = Returned5(ComputeComponents(MostRecentWindow(price_history)))

\* C21: for an input with more than 200 valid records the structure,
\* momentum and risk subscores are those of the input reduced to its most
\* recent 200 records; label, score, participation and has_volume are too
\* whenever every older record is a record with a valid close and volume or
\* the window itself has no volumes; otherwise has_volume is False and
\* participation 0.5.
OlderRecordsMatterOnlyForVolume ==
    result # <<>> /\ ~result[1].raised /\ NumValid(price_history) > HEALTH_WINDOW_DAYS =>
        /\ \A k \in SubscoreNames \ {"participation"} :
               result[1].comps_now.subscores[k]
                   = ComputeComponents(MostRecentWindow(price_history)).subscores[k]
        /\ (\/ \A i \in 1..Len(OlderRecords(price_history)) :
                   FullRecord(OlderRecords(price_history)[i])
            \/ ~ComputeComponents(MostRecentWindow(price_history)).has_volume)
              => Returned5(result[1].comps_now)
                    = Returned5(ComputeComponents(MostRecentWindow(price_history)))
        /\ (\E i \in 1..Len(OlderRecords(price_history)) :
                   ~FullRecord(OlderRecords(price_history)[i]))
              => /\ ~result[1].comps_now.has_volume
                 /\ result[1].comps_now.subscores.participation = 500

\* 202 records with volumes were scored as their most recent 200
OlderFullRecordsIgnored ==
    /\ result # <<>> /\ ~result[1].raised
    /\ NumValid(price_history) = HEALTH_WINDOW_DAYS + 2
    /\ result[1].comps_now.has_volume
    /\ result[1].comps_now.score # 50
    /\ Len(OlderRecords(price_history)) = 2

(***************************************************************************)
(* Properties of run_alerts_once.  WasEvaluated(p): the last finished run  *)
(* evaluated the pair p; Met(p): what it met and did for p.                *)
(***************************************************************************)
WasEvaluated(p) == last_run # <<>> /\ last_run[1].pairs[p] # <<>>
Met(p) == last_run[1].pairs[p][1]
Alerted(p) == WasEvaluated(p) /\ Met(p).reasons # <<>>

\* C22: two alerts of a pair are never less than 6 hours apart, and the
\* stored last_sent_at is always the time of the pair's latest alert: no
\* state update clears or changes it.
CooldownBetweenAlerts ==
    \A p \in Pairs :
        /\ \A i, j \in DOMAIN alerted_at[p] :
               i < j => alerted_at[p][j] - alerted_at[p][i] >= COOLDOWN_SECONDS
        /\ alerted_at[p] # <<>> =>
               /\ alert_state[p] # <<>>
               /\ alert_state[p][1].last_sent_at
                      = <<IsoZ(alerted_at[p][Len(alerted_at[p])])>>
        /\ alerted_at[p] = <<>> /\ alert_state[p] # <<>> =>
               alert_state[p][1].last_sent_at = <<>>

\* a run less than 6 hours after an alert met a changed trend bucket and
\* triggered nothing
ChangeDuringCooldownNotAlerted ==
    \E p \in Pairs :
        /\ WasEvaluated(p)
        /\ Met(p).path = "cooldown"
        /\ alerted_at[p] # <<>>
        /\ last_run[1].now > alerted_at[p][Len(alerted_at[p])]
        /\ Observed(Met(p).signals).bucket # Met(p).before[1].last_trend_bucket

\* C23: a run that finds no stored state for a pair stores the regime,
\* trend bucket and decay it observed and triggers no alert; every alert
\* comes from a run that found stored state.
FirstTimeStoresAndNeverAlerts ==
    \A p \in Pairs :
        /\ WasEvaluated(p) /\ Met(p).before = <<>> =>
               /\ Met(p).reasons = <<>>
               /\ alert_state[p] =
                      <<[last_regime |-> Met(p).signals.regime,
                         last_trend_bucket |-> TrendBucket(Met(p).signals.trend_score),
                         last_decay |-> Met(p).signals.momentum_decay,
                         last_sent_at |-> <<>>]>>
        /\ Alerted(p) => Met(p).before # <<>>

\* a first evaluation that observed a real trend bucket and a decay
FirstTimeWithSignals ==
    \E p \in Pairs :
        /\ WasEvaluated(p) /\ Met(p).before = <<>>
        /\ Met(p).signals.trend_score # <<>>
        /\ Met(p).signals.momentum_decay = <<"Elevated">>
        /\ alerted_at[p] = <<>>

\* C24: after every run that evaluated a pair the stored last_regime,
\* last_trend_bucket and last_decay are the signals observed in that run.
StoredStateFollowsEveryRun ==
    \A p \in Pairs :
        WasEvaluated(p) =>
            /\ alert_state[p] # <<>>
            /\ alert_state[p][1].last_regime = Met(p).signals.regime
            /\ alert_state[p][1].last_trend_bucket
                   = TrendBucket(Met(p).signals.trend_score)
            /\ alert_state[p][1].last_decay = Met(p).signals.momentum_decay

\* C25: when the label the engine computed differs from the stored regime
\* and the pair has state and is not in cooldown, the run triggers an alert
\* whose reasons include "Regime changed to <label>".
RegimeFlipAlerts ==
    \A p \in Pairs :
        /\ WasEvaluated(p) /\ Met(p).path = "checked"
        /\ Met(p).label # <<>>
        /\ Met(p).label # Met(p).before[1].last_regime
        => \E k \in DOMAIN Met(p).reasons :
               Met(p).reasons[k]
                   = [text |-> "Regime changed to", value |-> Met(p).label[1]]

\* the order None < Mild < Elevated
DecayRanks == <<"None", "Mild", "Elevated">>
DecayRank(decay) == CHOOSE k \in DOMAIN DecayRanks : DecayRanks[k] = decay

\* C26: with regime and trend bucket as stored, a run triggers an alert
\* only if the current decay ranks strictly above the stored one in
\* None < Mild < Elevated; a null current or stored decay triggers none.
DecayAlertsOnWorseningOnly ==
    \A p \in Pairs :
        /\ Alerted(p)
        /\ Met(p).signals.regime = Met(p).before[1].last_regime
        /\ TrendBucket(Met(p).signals.trend_score)
               = Met(p).before[1].last_trend_bucket
        => /\ Met(p).signals.momentum_decay # <<>>
           /\ Met(p).before[1].last_decay # <<>>
           /\ DecayRank(Met(p).signals.momentum_decay[1])
                  > DecayRank(Met(p).before[1].last_decay[1])

\* decay went from Mild to Elevated in an unchanged bucket and was alerted
WorsenedDecayAlerted ==
    \E p \in Pairs :
        /\ Alerted(p)
        /\ TrendBucket(Met(p).signals.trend_score)
               = Met(p).before[1].last_trend_bucket
        /\ Met(p).before[1].last_decay = <<"Mild">>
        /\ Met(p).reasons
               = <<[text |-> "Momentum decay worsened to", value |-> "Elevated"]>>

\* C29: a run in which analyze_ticker failed for the ticker of a pair
\* triggers no alert for the pair.
FailedAnalysisNeverAlerts ==
    \A p \in Pairs : WasEvaluated(p) /\ ~Met(p).ok => Met(p).reasons = <<>>

\* C28: with the scheduler's run and a run started by the endpoint
\* interleaved, the alerts of a pair are still never less than 6 hours
\* apart.
CooldownUnderConcurrency ==
    \A p \in Pairs :
        \A i, j \in DOMAIN alerted_at[p] :
            i < j => Abs(alerted_at[p][j] - alerted_at[p][i]) >= COOLDOWN_SECONDS

\* C27: from an empty store, after any adds and removes, a free user's
\* stored watchlist has at most 3 tickers, all normalized and without
\* duplicates; adding a new ticker to a full list raises ProRequiredError
\* and leaves the stored list as it was, and adding a ticker that is
\* already there returns the list as it was.
FreeWatchlistWithinLimit ==
    /\ \A u \in Users :
          /\ Len(watchlists[u]) <= 3
          /\ \A i \in DOMAIN watchlists[u] :
                 /\ watchlists[u][i].form = "upper"
                 /\ watchlists[u][i].sym \in WatchSymbols
          /\ \A i, j \in DOMAIN watchlists[u] :
                 i # j => watchlists[u][i] # watchlists[u][j]
    /\ watch_call # <<>> /\ watch_call[1].op = "add" /\ watch_call[1].ticker.sym # "" =>
          /\ Len(watch_call[1].before) = 3
             /\ ~InList(watch_call[1].ticker, watch_call[1].before)
             => /\ watch_call[1].outcome = "ProRequiredError"
                /\ watchlists[watch_call[1].user] = watch_call[1].before
          /\ InList(watch_call[1].ticker, watch_call[1].before)
             => /\ watch_call[1].outcome = "present"
                /\ watch_call[1].returned = watch_call[1].before
                /\ watchlists[watch_call[1].user] = watch_call[1].before

\* a fourth ticker was refused and the three stored ones were kept
FourthTickerRefused ==
    /\ watch_call # <<>>
    /\ watch_call[1].outcome = "ProRequiredError"
    /\ Len(watchlists[watch_call[1].user]) = 3
    /\ ~InList(watch_call[1].ticker, watchlists[watch_call[1].user])

\* C30: whenever delta_since_close is not None and the input has at least
\* 10 valid prices, the input without its last element has at least 10
\* valid prices too, so a real score is never compared with the neutral 50.
DeltaNeverAgainstNeutralFallback ==
    /\ result # <<>> /\ ~result[1].raised
    /\ NumValid(price_history) >= MIN_PRICES
    /\ result[1].delta_since_close # <<>>
    => NumValid(DropLast(price_history, 1)) >= MIN_PRICES

====
